---- MODULE Spec2Model ----
(***************************************************************************)
(* Model of the Gifer GIF compression engine.                              *)
(*                                                                         *)
(*   Spec      one run of GifOptimizer.optimize_gif                        *)
(*             (src/app/compressor/gif_optimizer.py)                       *)
(*   FairSpec  the same run, with the fairness of a sequential program     *)
(*   SpecFile  one call of CompressionService.compress_gif_file            *)
(*             (src/app/services/compression_service.py)                   *)
(*   SpecDedup GifOptimizer._remove_duplicates as a pure function          *)
(*                                                                         *)
(* Byte sizes are scaled to small naturals; durations are integers in      *)
(* milliseconds (frame.info['duration'], before the division by 1000.0).   *)
(* Encoded sizes, similarities and I/O faults are inputs of the            *)
(* environment and are drawn nondeterministically.                         *)
(***************************************************************************)
EXTENDS Integers, Sequences, FiniteSets, TLC

VARIABLES
    \* ---- optimize_gif ----
    pc,                    \* position of the run (the stage last completed)
    settings,              \* self.settings (CompressionSettings)
    frames,                \* optimized_frames
    durations,             \* optimized_durations (ms)
    similarity,            \* similarity[i] = _calculate_frame_similarity(f[i-1], f[i]) * 100
    original_frame_count,  \* len(frames) after load
    dims,                  \* <<width, height>> of the frames of the artifact
    ladderPos,             \* index of the ladder entry the for loop takes next
    found,                 \* the loop was left by the break of line 137
    best_colors,
    trials,                \* history: the trial encodes made, in order
    temp_size,             \* size of the file at temp_path
    encode_colors,         \* colors passed to _create_optimized_gif (0: not yet)
    artifacts,             \* history: sizes of the final artifacts produced
    tmpFiles,              \* temporary files of the run present on disk
    outFile,               \* file at final_output_path: <<>> or <<size>>
    stats,                 \* the dict returned
    stages,                \* history: stages completed, in order
    \* ---- compress_gif_file ----
    fpc,                   \* position of the call
    call,                  \* the arguments of the call, and the size of the source
    fs,                    \* file system: real file -> NoFile or File(content, size)
    dirs,                  \* existing directories
    result,                \* the dict returned
    pipelineRan,           \* the core pipeline (optimize_gif) was started
    fault,                 \* the exception raised during the call, "" for none
    \* ---- a helper function of GifOptimizer called on its own ----
    dd_pc, dd_in, dd_out,
    \* ---- compress_directory ----
    d_pc,                  \* position of the call
    gif_files,             \* the files matched by the pattern, in match order
    index,                 \* position of the loop in gif_files
    results,               \* the dict returned
    \* ---- ExternalToolManager ----
    t_pc,                  \* position: between calls, or inside one
    installed,             \* the host: tool -> "ok", "broken" or "missing"
    tool_cache,            \* tools with a path in self._tool_cache
    ncalls,                \* calls made on the manager so far
    t_call,                \* the call in progress or last made
    cache0,                \* tool_cache when the call started
    probes,                \* tools probed during the call, in order
    cmds,                  \* gifsicle command lines run during the call
    rung,                  \* position of the loop in its ladder
    attempts,              \* the attempts list of optimize_with_gifsicle
    out_file,              \* size of the file at output_path, 0 for no file
    out_file0,             \* the same when the call started
    last_run,              \* how the last subprocess ended
    met_at,                \* number of the first run that met the target, or 0
    timed_out,             \* a subprocess of the call hit its timeout
    written_by,            \* number of the run of the call that wrote the file at the
                           \* output path, 0 while it is the file from before the call
    t_result               \* the dict returned

optVars   == <<pc, settings, frames, durations, similarity, original_frame_count, dims,
               ladderPos, found, best_colors, trials, temp_size, encode_colors,
               artifacts, tmpFiles, outFile, stats, stages>>
fileVars  == <<fpc, call, fs, dirs, result, pipelineRan, fault>>
dedupVars == <<dd_pc, dd_in, dd_out>>
dirVars   == <<d_pc, gif_files, index, results>>
toolVars  == <<t_pc, installed, tool_cache, ncalls, t_call, cache0, probes, cmds,
               rung, attempts, out_file, out_file0, last_run, met_at, timed_out,
               written_by, t_result>>
vars      == <<optVars, fileVars, dedupVars, dirVars, toolVars>>

----------------------------------------------------------------------------
(* Bounds of the model *)

\* encoded sizes range over 1..MaxSize
MaxSize == 4
\* settings.max_file_size, on the scale of MaxSize
TargetSize == 2
\* frames of a source GIF in a run of optimize_gif
MaxFrames == 2
\* frames handed to _remove_duplicates as a pure function
MaxLen == 3

Sizes == 1..MaxSize
\* frame durations of the source, in ms: below the 100 ms floor (also when
\* two are merged), at it and above it
DurationChoices == {20, 100, 150}
\* similarity * 100: identical frames, and frames at least as different as the threshold
SimilarityChoices == {0, 100}
\* <<width, height>> of the source: a landscape frame, and a frame too small
\* to be scaled down
DimChoices == {<<4, 3>>, <<1, 2>>}

----------------------------------------------------------------------------
(* Program constants *)

\* the ladder of optimize_gif
Ladder == <<256, 192, 128, 96, 64, 48, 32, 24, 16>>
\* CompressionSettings.min_frame_duration, 0.1 s, in ms
MinFrameDurationMs == 100
\* CompressionSettings.duplicate_threshold, 0.95, times 100
DuplicateThreshold == 95
\* CompressionSettings.max_width, max_height
MaxWidth == 1920
MaxHeight == 1080
\* color bounds of the presets of get_optimal_settings_for_target_size
MaxColorChoices == {64, 128, 256}
MinColorChoices == {16, 24, 32}

CompressionSettings ==
    [max_file_size      : {TargetSize},
     max_colors         : MaxColorChoices,
     min_colors         : MinColorChoices,
     min_frame_duration : {MinFrameDurationMs},
     duplicate_threshold: {DuplicateThreshold},
     remove_duplicates  : BOOLEAN,
     allow_resize       : BOOLEAN,
     max_width          : {MaxWidth},
     max_height         : {MaxHeight}]

----------------------------------------------------------------------------
(* Pure helpers *)

RECURSIVE SumSeq(_)
SumSeq(s) == IF s = <<>> THEN 0 ELSE Head(s) + SumSeq(Tail(s))

RECURSIVE MinSeq(_)
MinSeq(s) == IF Len(s) = 1 THEN s[1]
             ELSE LET m == MinSeq(Tail(s)) IN IF s[1] < m THEN s[1] ELSE m

Max(a, b) == IF a >= b THEN a ELSE b
Min(a, b) == IF a <= b THEN a ELSE b

\* optimized_durations[-1] += durations[i]
MergeDurationLost(od, d) == od
MergeDuration(od, d) == [od EXCEPT ![Len(od)] = @ + d]

\* similarity < self.settings.duplicate_threshold: the frame is kept
KeepFrame(sim, threshold) == sim < threshold

RECURSIVE DedupLoop(_, _, _, _, _, _, _)
DedupLoop(fr, du, sim, threshold, i, of, od) ==
    IF i > Len(fr) THEN [frames |-> of, durations |-> od]
    ELSE IF KeepFrame(sim[i], threshold)
         THEN DedupLoop(fr, du, sim, threshold, i + 1, Append(of, fr[i]), Append(od, du[i]))
         ELSE DedupLoop(fr, du, sim, threshold, i + 1, of, MergeDuration(od, du[i]))

\* _remove_duplicates; sim[i] is the similarity of frames i-1 and i
RemoveDuplicatesFromSecond(fr, du, sim, threshold) ==
    IF Len(fr) <= 1 THEN [frames |-> fr, durations |-> du]
    ELSE DedupLoop(fr, du, sim, threshold, 3, <<fr[2]>>, <<du[2]>>)
RemoveDuplicates(fr, du, sim, threshold) ==
    IF Len(fr) <= 1 THEN [frames |-> fr, durations |-> du]
    ELSE DedupLoop(fr, du, sim, threshold, 2, <<fr[1]>>, <<du[1]>>)

\* _optimize_frame_timing
OptimizeFrameTimingFirst(du, floor) ==
    [i \in 1..Len(du) |-> IF i = 1 THEN Max(du[i], floor) ELSE du[i]]
OptimizeFrameTimingLower(du, floor) == [i \in 1..Len(du) |-> Min(du[i], floor)]
OptimizeFrameTiming(du, floor) == [i \in 1..Len(du) |-> Max(du[i], floor)]

----------------------------------------------------------------------------
(* GifOptimizer.optimize_gif *)

Techniques == {"duplicate_removal", "frame_timing_optimization",
               "color_reduction", "dimension_reduction"}

\* the stats dict of lines 84-91 (has_error: the key 'error' is present,
\* has_output_path: the key 'output_path' is present)
InitialStats ==
    [success |-> FALSE, final_size |-> 0, techniques_used |-> <<>>,
     has_error |-> FALSE, has_output_path |-> FALSE]

\* stats['techniques_used'].append(tag)
AddTechniqueInFront(st, tag) == [st EXCEPT !.techniques_used = <<tag>> \o @]
AddTechnique(st, tag) == [st EXCEPT !.techniques_used = Append(@, tag)]

\* values the variables of the other operations keep while this one runs
FileIdle ==
    /\ fpc = "IDLE" /\ call = <<>> /\ fs = <<>> /\ dirs = {}
    /\ result = <<>> /\ pipelineRan = FALSE /\ fault = ""
DedupIdle == dd_pc = "IDLE" /\ dd_in = <<>> /\ dd_out = <<>>
DirIdle == d_pc = "IDLE" /\ gif_files = <<>> /\ index = 0 /\ results = <<>>
ToolIdle ==
    /\ t_pc = "IDLE" /\ installed = <<>> /\ tool_cache = {} /\ ncalls = 0
    /\ t_call = <<>> /\ cache0 = {} /\ probes = <<>> /\ cmds = <<>> /\ rung = 0
    /\ attempts = <<>> /\ out_file = 0 /\ out_file0 = 0 /\ last_run = <<>> /\ met_at = 0
    /\ timed_out = FALSE /\ written_by = 0 /\ t_result = <<>>
OptIdle ==
    /\ pc = "IDLE" /\ settings = <<>> /\ frames = <<>> /\ durations = <<>>
    /\ similarity = <<>> /\ original_frame_count = 0 /\ dims = <<>> /\ ladderPos = 1
    /\ found = FALSE /\ best_colors = 0 /\ trials = <<>> /\ temp_size = 0
    /\ encode_colors = 0 /\ artifacts = <<>> /\ tmpFiles = {} /\ outFile = <<>>
    /\ stats = InitialStats /\ stages = <<>>

Init ==
    /\ pc = "START"
    /\ settings \in CompressionSettings
    /\ frames = <<>> /\ durations = <<>> /\ similarity = <<>>
    /\ original_frame_count = 0 /\ dims = <<>>
    /\ ladderPos = 1 /\ found = FALSE /\ best_colors = 0 /\ trials = <<>>
    /\ temp_size = 0 /\ encode_colors = 0 /\ artifacts = <<>>
    /\ tmpFiles = {} /\ outFile = <<>>
    /\ stats = InitialStats
    /\ stages = <<>>
    /\ FileIdle /\ DedupIdle /\ DirIdle /\ ToolIdle

\* except Exception (lines 194-197): the error is recorded and stats returned
Raise ==
    /\ pc' = "FAILED"
    /\ stages' = Append(stages, "FAILED")
    /\ stats' = [stats EXCEPT !.has_error = TRUE]

\* lines 94-102: _load_gif_frames; a decodable GIF has at least one frame
Load ==
    /\ pc = "START"
    /\ \/ \E n \in 1..MaxFrames :
            \E du \in [1..n -> DurationChoices], sim \in [1..n -> SimilarityChoices],
               size \in DimChoices :
                /\ sim[1] = 0
                /\ frames' = [i \in 1..n |-> i]
                /\ dims' = size
                /\ durations' = du
                /\ similarity' = sim
                /\ original_frame_count' = n
                /\ pc' = "LOADED"
                /\ stages' = Append(stages, "LOADED")
                /\ UNCHANGED stats
       \/ /\ Raise
          /\ UNCHANGED <<frames, durations, similarity, original_frame_count, dims>>
    /\ UNCHANGED <<settings, ladderPos, found, best_colors, trials, temp_size,
                   encode_colors, artifacts, tmpFiles, outFile>>
    /\ UNCHANGED <<fileVars, dedupVars, dirVars, toolVars>>

\* lines 104-110: step 1
Dedupe ==
    /\ pc = "LOADED"
    /\ LET r == IF settings.remove_duplicates
                THEN RemoveDuplicates(frames, durations, similarity,
                                      settings.duplicate_threshold)
                ELSE [frames |-> frames, durations |-> durations]
       IN /\ frames' = r.frames
          /\ durations' = r.durations
          /\ stats' = IF Len(r.frames) < original_frame_count
                      THEN AddTechnique(stats, "duplicate_removal")
                      ELSE stats
    /\ pc' = "DEDUPED"
    /\ stages' = Append(stages, "DEDUPED")
    /\ UNCHANGED <<dims, settings, similarity, original_frame_count, ladderPos, found,
                   best_colors, trials, temp_size, encode_colors, artifacts,
                   tmpFiles, outFile>>
    /\ UNCHANGED <<fileVars, dedupVars, dirVars, toolVars>>

\* lines 112-118: step 2, and best_colors = self.settings.max_colors
\* line 113: min(optimized_durations) < self.settings.min_frame_duration
TimingAlways(du, floor) == TRUE
TimingNeeded(du, floor) == MinSeq(du) < floor

TimingAt(from) ==
    /\ pc = from
    /\ IF TimingNeeded(durations, settings.min_frame_duration)
       THEN /\ durations' = OptimizeFrameTiming(durations, settings.min_frame_duration)
            /\ stats' = AddTechnique(stats, "frame_timing_optimization")
       ELSE UNCHANGED <<durations, stats>>
    /\ best_colors' = settings.max_colors
    /\ pc' = "TIMING_NORMALIZED"
    /\ stages' = Append(stages, "TIMING_NORMALIZED")
    /\ UNCHANGED <<dims, settings, frames, similarity, original_frame_count, ladderPos,
                   found, trials, temp_size, encode_colors, artifacts, tmpFiles,
                   outFile>>
    /\ UNCHANGED <<fileVars, dedupVars, dirVars, toolVars>>

TimingBeforeDedupe == TimingAt("LOADED")
\* step 2 follows step 1
Timing == TimingAt("DEDUPED")

\* the for loop of lines 119-140 goes on: the ladder is not exhausted, the
\* candidate is not below min_colors (break, line 121) and no trial has fit
\* (break, line 137)
LoopContinuesNoBreak(pos, fnd, s) ==
    /\ pos <= Len(Ladder)
    /\ Ladder[pos] >= s.min_colors
LoopContinues(pos, fnd, s) ==
    /\ ~fnd
    /\ pos <= Len(Ladder)
    /\ Ladder[pos] >= s.min_colors

\* test_size <= self.settings.max_file_size (line 133)
TrialFits(test_size, s) == test_size <= s.max_file_size

\* lines 119-140: one iteration of the loop. The trial file is created by
\* mkstemp before the frames are quantized and saved, and unlinked on both
\* ways out of the iteration; a fault in between (quantize, mimsave, stat)
\* leaves it, a fault of mkstemp itself leaves nothing.
TrialEncode ==
    /\ pc = "TIMING_NORMALIZED"
    /\ LoopContinues(ladderPos, found, settings)
    /\ \/ \E test_size \in Sizes :
            LET colors == Ladder[ladderPos] IN
            /\ trials' = Append(trials, [colors |-> colors,
                                         fits |-> test_size <= settings.max_file_size])
            /\ IF TrialFits(test_size, settings)
               THEN /\ best_colors' = colors
                    /\ found' = TRUE
               ELSE UNCHANGED <<best_colors, found>>
            /\ ladderPos' = ladderPos + 1
            /\ UNCHANGED <<pc, stages, stats, tmpFiles>>
       \/ \E created \in BOOLEAN :
            /\ Raise
            /\ tmpFiles' = IF created THEN tmpFiles \cup {"trial"} ELSE tmpFiles
            /\ UNCHANGED <<trials, best_colors, found, ladderPos>>
    /\ UNCHANGED <<dims, settings, frames, durations, similarity, original_frame_count,
                   temp_size, encode_colors, artifacts, outFile>>
    /\ UNCHANGED <<fileVars, dedupVars, dirVars, toolVars>>

\* lines 142-147: after the loop
PaletteDone ==
    /\ pc = "TIMING_NORMALIZED"
    /\ ~LoopContinues(ladderPos, found, settings)
    /\ stats' = IF best_colors < settings.max_colors
                THEN AddTechnique(stats, "color_reduction")
                ELSE stats
    /\ pc' = "PALETTE_SEARCHED"
    /\ stages' = Append(stages, "PALETTE_SEARCHED")
    /\ UNCHANGED <<dims, settings, frames, durations, similarity, original_frame_count,
                   ladderPos, found, best_colors, trials, temp_size, encode_colors,
                   artifacts, tmpFiles, outFile>>
    /\ UNCHANGED <<fileVars, dedupVars, dirVars, toolVars>>

\* lines 149-156: step 4, _create_optimized_gif(frames, durations, best_colors)
FinalEncode ==
    /\ pc = "PALETTE_SEARCHED"
    /\ encode_colors' = best_colors
    /\ tmpFiles' = tmpFiles \cup {"encode"}
    /\ \/ \E sz \in Sizes :
            /\ temp_size' = sz
            /\ artifacts' = Append(artifacts, sz)
            /\ pc' = "ENCODED"
            /\ stages' = Append(stages, "ENCODED")
            /\ UNCHANGED stats
       \/ /\ Raise
          /\ UNCHANGED <<temp_size, artifacts>>
    /\ UNCHANGED <<dims, settings, frames, durations, similarity, original_frame_count,
                   ladderPos, found, best_colors, trials, outFile>>
    /\ UNCHANGED <<fileVars, dedupVars, dirVars, toolVars>>

\* line 159: temp_size > max_file_size and allow_resize (with which
\* _resize_gif_if_needed does not return at line 330)
NeedsResizeAlways(size, s) == size > s.max_file_size
NeedsResize(size, s) == size > s.max_file_size /\ s.allow_resize

\* int(x * scale_factor) with scale_factor = (max_file_size / current_size) ** 0.5
\* (lines 334-335, 342-343), on the exact value: the largest k with
\* k * k * current_size <= x * x * max_file_size
ScaleDown(x, max_file_size, current_size) ==
    CHOOSE k \in 0..x :
        /\ k * k * current_size <= x * x * max_file_size
        /\ (k + 1) * (k + 1) * current_size > x * x * max_file_size

\* lines 341-343: the scaled dimensions, each capped by its maximum
CappedDims(d, current_size, s) ==
    <<Min(ScaleDown(d[1], s.max_file_size, current_size), s.max_width),
      Min(ScaleDown(d[2], s.max_file_size, current_size), s.max_height)>>

\* lines 345-350: one dimension is recomputed from the other;
\* new_width / new_height > aspect_ratio is n[1] * d[2] > d[1] * n[2]
UnsnappedDims(d, current_size, s) == CappedDims(d, current_size, s)
ResizeDims(d, current_size, s) ==
    LET n == CappedDims(d, current_size, s) IN
    IF n[1] * d[2] > d[1] * n[2]
    THEN <<(n[2] * d[1]) \div d[2], n[2]>>
    ELSE <<n[1], (n[1] * d[2]) \div d[1]>>

\* line 347 divides by new_height, and Image.resize (line 355) refuses a
\* dimension of 0
ResizeRaises(d, current_size, s) ==
    \/ CappedDims(d, current_size, s)[2] = 0
    \/ ResizeDims(d, current_size, s)[1] = 0
    \/ ResizeDims(d, current_size, s)[2] = 0

\* lines 158-165 and _resize_gif_if_needed: one re-encode of the resized
\* frames into a new temporary file; the pre-resize file is unlinked. A fault
\* before mkstemp (line 359) leaves only the pre-resize file, one after it
\* leaves both.
Resize ==
    /\ pc = "ENCODED"
    /\ NeedsResize(temp_size, settings)
    /\ \/ \E sz \in Sizes :
            /\ ~ResizeRaises(dims, temp_size, settings)
            /\ dims' = ResizeDims(dims, temp_size, settings)
            /\ temp_size' = sz
            /\ artifacts' = Append(artifacts, sz)
            /\ tmpFiles' = (tmpFiles \ {"encode"}) \cup {"resize"}
            /\ stats' = AddTechnique(stats, "dimension_reduction")
            /\ pc' = "RESIZED"
            /\ stages' = Append(stages, "RESIZED")
       \/ \E created \in BOOLEAN :
            /\ ResizeRaises(dims, temp_size, settings) => ~created
            /\ Raise
            /\ tmpFiles' = IF created THEN tmpFiles \cup {"resize"} ELSE tmpFiles
            /\ UNCHANGED <<temp_size, artifacts, dims>>
    /\ UNCHANGED <<settings, frames, durations, similarity, original_frame_count,
                   ladderPos, found, best_colors, trials, encode_colors, outFile>>
    /\ UNCHANGED <<fileVars, dedupVars, dirVars, toolVars>>

\* 'success': final_size <= self.settings.max_file_size (line 183)
SuccessFlagStrict(final_size, s) == final_size < s.max_file_size
SuccessFlagAlways(final_size, s) == TRUE
SuccessFlag(final_size, s) == final_size <= s.max_file_size

\* what shutil.move leaves at final_output_path when its copy from the
\* temporary directory to another file system fails on the way: a file cut
\* short, smaller than every complete artifact
CutShortFile == <<0>>

\* lines 167-192: the temporary file is moved to final_output_path and the
\* stats are completed. A move that fails leaves no file or one cut short.
Finish ==
    /\ \/ pc = "RESIZED"
       \/ pc = "ENCODED" /\ ~NeedsResize(temp_size, settings)
    /\ \/ LET final_size == temp_size IN
          /\ outFile' = <<temp_size>>
          /\ tmpFiles' = tmpFiles \ {IF pc = "RESIZED" THEN "resize" ELSE "encode"}
          /\ stats' = [stats EXCEPT !.final_size = final_size,
                                    !.success = SuccessFlag(final_size, settings),
                                    !.has_output_path = TRUE]
          /\ pc' = IF SuccessFlag(final_size, settings) THEN "SUCCESS" ELSE "SIZE_EXCEEDED"
          /\ stages' = Append(stages, pc')
       \/ \E cut_short \in BOOLEAN :
            /\ Raise
            /\ outFile' = IF cut_short THEN CutShortFile ELSE outFile
            /\ UNCHANGED tmpFiles
    /\ UNCHANGED <<dims, settings, frames, durations, similarity, original_frame_count,
                   ladderPos, found, best_colors, trials, temp_size, encode_colors,
                   artifacts>>
    /\ UNCHANGED <<fileVars, dedupVars, dirVars, toolVars>>

Next ==
    \/ Load
    \/ Dedupe
    \/ Timing
    \/ TrialEncode
    \/ PaletteDone
    \/ FinalEncode
    \/ Resize
    \/ Finish

Spec == Init /\ [][Next]_vars

\* optimize_gif is sequential code without waits: a step that can be taken is taken
FairSpec == Spec /\ WF_vars(Next)

Terminal == {"SUCCESS", "SIZE_EXCEEDED", "FAILED"}

----------------------------------------------------------------------------
(* Claims about optimize_gif *)

Completed == pc \in {"SUCCESS", "SIZE_EXCEEDED"}

\* C1: the trial encodes are made in ladder order, none below min_colors, and
\* none after the first trial whose size is <= max_file_size.
C1_PaletteSearchOrder ==
    /\ Len(trials) <= Len(Ladder)
    /\ \A i \in 1..Len(trials) :
        /\ trials[i].colors = Ladder[i]
        /\ trials[i].colors >= settings.min_colors
        /\ i < Len(trials) => ~trials[i].fits

\* the 128-color trial fit after 256 and 192 did not, and the search is over
C1_Witness ==
    /\ pc = "PALETTE_SEARCHED"
    /\ Len(trials) = 3
    /\ trials[3].colors = 128 /\ trials[3].fits
    /\ ~trials[1].fits /\ ~trials[2].fits

\* C2: a run without fault reports success exactly when the file at the final
\* output path is <= max_file_size, and final_size is that file's size; a run
\* that ends in a fault reports success = false.
C2_SuccessIffFits ==
    /\ Completed =>
        /\ outFile # <<>>
        /\ stats.final_size = outFile[1]
        /\ stats.success <=> (outFile[1] <= settings.max_file_size)
    /\ pc = "FAILED" => ~stats.success

\* a run that ends with a file of exactly the target size
C2_Witness ==
    /\ Completed
    /\ outFile = <<settings.max_file_size>>
    /\ stats.success

\* C6 (as claimed): when no trial fits, the final encode uses the lowest
\* color count that was trial-encoded.
C6_FallbackIsLowestTested ==
    (encode_colors # 0 /\ trials # <<>> /\ \A i \in 1..Len(trials) : ~trials[i].fits)
        => encode_colors = trials[Len(trials)].colors

\* C7 (as claimed): the color count of the final encode lies within
\* [min_colors, max_colors].
C7_FinalColorsWithinBounds ==
    encode_colors # 0 =>
        /\ settings.min_colors <= encode_colors
        /\ encode_colors <= settings.max_colors

\* C8 (as claimed): the artifact delivered at the output path is not larger
\* than any final artifact produced during the run.
C8_BestArtifactKept ==
    Completed => \A i \in 1..Len(artifacts) : outFile[1] <= artifacts[i]

IsPrefix(s, t) == Len(s) <= Len(t) /\ SubSeq(t, 1, Len(s)) = s

\* the stages of `st` follow `order`: a prefix of it, then possibly a
\* terminal stage, SUCCESS and SIZE_EXCEEDED only after all of `order` or
\* all of it but the optional RESIZED
FollowsOrder(st, order, withoutResize) ==
    LET n == Len(st)
        ended == n > 0 /\ st[n] \in Terminal
        body == IF ended THEN SubSeq(st, 1, n - 1) ELSE st
    IN /\ IsPrefix(body, order) \/ IsPrefix(body, withoutResize)
       /\ (ended /\ st[n] # "FAILED") => body \in {order, withoutResize}

StagesOfCode == <<"LOADED", "DEDUPED", "TIMING_NORMALIZED", "PALETTE_SEARCHED",
                  "ENCODED", "RESIZED">>
StagesAsClaimed == <<"LOADED", "DEDUPED", "TIMING_NORMALIZED", "PALETTE_SEARCHED",
                     "RESIZED", "ENCODED">>
StagesWithoutResize == <<"LOADED", "DEDUPED", "TIMING_NORMALIZED", "PALETTE_SEARCHED",
                         "ENCODED">>

\* C10 (as claimed): the stages are entered in the order LOADED, DEDUPED,
\* TIMING_NORMALIZED, PALETTE_SEARCHED, optionally RESIZED, ENCODED, then
\* SUCCESS or SIZE_EXCEEDED.
C10_OrderAsClaimed == FollowsOrder(stages, StagesAsClaimed, StagesWithoutResize)

\* C10 (amended): the stages are entered in the order LOADED, DEDUPED,
\* TIMING_NORMALIZED, PALETTE_SEARCHED, ENCODED, optionally RESIZED, then
\* SUCCESS or SIZE_EXCEEDED (or a failed result at any point); none is
\* entered twice, and every run reaches a terminal state.
C10_StageOrder ==
    /\ [](FollowsOrder(stages, StagesOfCode, StagesWithoutResize))
    /\ <>(pc \in Terminal)

\* a run that was resized after its encode and ended over the target
C10_Witness ==
    stages = StagesOfCode \o <<"SIZE_EXCEEDED">>

----------------------------------------------------------------------------
(* GifOptimizer._remove_duplicates as a pure function *)

DedupInputs ==
    UNION {[frames : {[i \in 1..n |-> i]},
            durations : [1..n -> DurationChoices],
            sim : {f \in [1..n -> SimilarityChoices] : n >= 1 => f[1] = 0},
            threshold : {DuplicateThreshold}] : n \in 0..MaxLen}

InitDedup ==
    /\ dd_pc = "CALL"
    /\ dd_in \in DedupInputs
    /\ dd_out = <<>>
    /\ OptIdle /\ FileIdle /\ DirIdle /\ ToolIdle

RemoveDuplicatesCall ==
    /\ dd_pc = "CALL"
    /\ dd_out' = RemoveDuplicates(dd_in.frames, dd_in.durations, dd_in.sim,
                                  dd_in.threshold)
    /\ dd_pc' = "RETURNED"
    /\ UNCHANGED <<dd_in, optVars, fileVars, dirVars, toolVars>>

NextDedup == RemoveDuplicatesCall

SpecDedup == InitDedup /\ [][NextDedup]_vars

\* C5: the durations returned by _remove_duplicates sum to the total of the
\* input durations (durations as exact numbers of milliseconds).
C5_DurationConserved ==
    dd_pc = "RETURNED" => SumSeq(dd_out.durations) = SumSeq(dd_in.durations)

\* frame 2 was retained, frame 3 dropped and its duration merged into frame 2
C5_Witness ==
    /\ dd_pc = "RETURNED"
    /\ dd_in.frames = <<1, 2, 3>>
    /\ dd_out.frames = <<1, 2>>
    /\ dd_out.durations[2] = dd_in.durations[2] + dd_in.durations[3]

----------------------------------------------------------------------------
(* CompressionService.compress_gif_file (app/services/compression_service.py) *)

\* Paths are [dir, name]. "./a" is another spelling of the directory "a";
\* "nodir" does not exist when the call is made.
DirSpellings == {"a", "./a", "b", "nodir"}
FileNames == {"in.gif", "in_optimized.gif", "in_compressed.gif", "o.gif", "t.gif"}
NoPath == <<>>

\* the directory a spelling names; also what pathlib makes of the spelling
RealDir(d) == IF d = "./a" THEN "a" ELSE d
\* str(Path(p)): pathlib drops the "." components
PathStr(p) == [dir |-> RealDir(p.dir), name |-> p.name]
\* the file a path names
RealFile(p) == [dir |-> RealDir(p.dir), name |-> p.name]
RealFiles == [dir : {"a", "b", "nodir"}, name : FileNames]

\* a file: no file, or its bytes (named by their origin) and its size
NoFile == <<>>
File(content, size) == <<content, size>>
SourceFile == [dir |-> "a", name |-> "in.gif"]

\* f"{target_filename}.gif" for the target names of the model
TargetFile(target_filename) == IF target_filename = "t" THEN "t.gif" ELSE "in.gif"

Calls ==
    [input_path       : [dir : {"a", "./a"}, name : {"in.gif"}],
     output_path      : {NoPath} \cup [dir : DirSpellings, name : {"in.gif", "o.gif"}],
     target_filename  : {"", "t", "in"},
     max_size         : {TargetSize},
     input_file_size  : 0..MaxSize,
     custom_settings  : BOOLEAN,
     force_compression: BOOLEAN]

\* the result dicts ('error' present: has_error; output_file: <<>> or <<path>>)
ErrorResult ==
    [success |-> FALSE, skipped_compression |-> FALSE, has_error |-> TRUE,
     output_file |-> <<>>, original_size |-> 0, final_size |-> 0,
     techniques_used |-> <<>>]

InitFile ==
    /\ fpc = "CALLED"
    /\ call \in Calls
    /\ dirs = {"a", "b"}
    \* the source, present or not, and older files at the other places or none
    \* (input_file_size: what stat of the source gives, 0 for no source)
    /\ \E old \in {NoFile, File("OLD", 1)} :
         fs = [f \in RealFiles |->
                 IF f = SourceFile
                 THEN IF call.input_file_size = 0 THEN NoFile
                      ELSE File("SRC", call.input_file_size)
                 ELSE IF f.dir \in {"a", "b"} THEN old ELSE NoFile]
    /\ result = [ErrorResult EXCEPT !.has_error = FALSE]
    /\ pipelineRan = FALSE
    /\ fault = ""
    /\ OptIdle /\ DedupIdle /\ DirIdle /\ ToolIdle


\* not force_compression and input_file_size <= target_size_bytes (line 46)
SkipsCompression(force_compression, input_file_size, target_size_bytes) ==
    ~force_compression /\ input_file_size <= target_size_bytes

\* shutil.copy2 / shutil.move on the file system
MoveFile(fsys, src, dst) == [fsys EXCEPT ![dst] = fsys[src], ![src] = NoFile]
Copy2(fsys, src, dst) == [fsys EXCEPT ![dst] = fsys[src]]

\* lines 51-53: final_output_path of the skip path
SkipOutputPath(c) ==
    LET given == IF c.output_path # NoPath THEN c.output_path
                 ELSE PathStr([dir |-> c.input_path.dir, name |-> "in_optimized.gif"])
    IN IF c.target_filename # ""
       THEN PathStr([dir |-> given.dir, name |-> TargetFile(c.target_filename)])
       ELSE given

SourceExists == call.input_file_size # 0
SourceSize == call.input_file_size

\* lines 109-115: except Exception; every exception of the call is one
CaughtUnlessTypeError(kind) == kind # "TypeError"
Caught(kind) == TRUE

\* an exception raised inside the try block of lines 41-107: the handler
\* returns the error dict, an exception it does not catch leaves the call
Except(kind, at) ==
    /\ fault' = kind
    /\ IF Caught(kind)
       THEN result' = ErrorResult /\ fpc' = at
       ELSE fpc' = "RAISED" /\ UNCHANGED result

\* line 43 raises for a missing source
StatFails ==
    /\ fpc = "CALLED"
    /\ ~SourceExists
    /\ Except("FileNotFoundError", "STAT_FAILED")
    /\ UNCHANGED <<call, fs, dirs, pipelineRan, optVars, dedupVars, dirVars, toolVars>>

\* lines 46-71: the skip path. copy2 raises SameFileError when both paths
\* name one file, and FileNotFoundError when the directory does not exist.
SkipPath ==
    /\ fpc = "CALLED"
    /\ SourceExists
    /\ SkipsCompression(call.force_compression, SourceSize, call.max_size)
    /\ LET final_output_path == SkipOutputPath(call)
           src == RealFile(call.input_path)
           dst == RealFile(final_output_path)
           skipped == [success |-> TRUE, skipped_compression |-> TRUE,
                       has_error |-> FALSE, output_file |-> <<final_output_path>>,
                       original_size |-> SourceSize, final_size |-> SourceSize,
                       techniques_used |-> <<"no_compression_needed">>]
           returned == /\ result' = skipped
                       /\ fpc' = "SKIP_RETURNED"
                       /\ UNCHANGED fault
       IN IF call.input_path # final_output_path
          THEN IF src = dst
               THEN Except("SameFileError", "SKIP_RETURNED") /\ UNCHANGED fs
               ELSE IF dst.dir \notin dirs
                    THEN Except("FileNotFoundError", "SKIP_RETURNED") /\ UNCHANGED fs
                    ELSE returned /\ fs' = Copy2(fs, src, dst)
          ELSE returned /\ UNCHANGED fs
    /\ UNCHANGED <<call, dirs, pipelineRan, optVars, dedupVars, dirVars, toolVars>>

\* lines 79-91: CompressionSettings is given enable_frame_subsampling and
\* use_external_tools, which the dataclass does not declare: TypeError
CustomSettingsFail ==
    /\ fpc = "CALLED"
    /\ SourceExists
    /\ ~SkipsCompression(call.force_compression, SourceSize, call.max_size)
    /\ call.custom_settings
    /\ Except("TypeError", "COMPRESS_RETURNED")
    /\ UNCHANGED <<call, fs, dirs, pipelineRan, optVars, dedupVars, dirVars, toolVars>>

\* the technique lists a run of optimize_gif may report, abridged
CoreTechniques == {<<>>, <<"color_reduction">>,
                   <<"color_reduction", "dimension_reduction">>}

\* lines 93-107 and the core CompressionService.compress_gif: optimize_gif
\* creates the output directory and returns either stats with an error,
\* nothing written, or the stats of a file moved to the final output path.
\* An exception of optimize_gif outside its own try block (mkdir, line 82) is
\* turned into an error dict by the core compress_gif (its lines 93-100).
CoreCompress ==
    /\ fpc = "CALLED"
    /\ SourceExists
    /\ ~SkipsCompression(call.force_compression, SourceSize, call.max_size)
    /\ ~call.custom_settings
    /\ LET output_path == IF call.output_path = NoPath
                          THEN PathStr([dir |-> call.input_path.dir,
                                        name |-> "in_compressed.gif"])
                          ELSE PathStr(call.output_path)
           final_output_path ==
               IF call.target_filename # ""
               THEN [dir |-> output_path.dir, name |-> TargetFile(call.target_filename)]
               ELSE output_path
       IN /\ pipelineRan' = TRUE
          /\ \E tech \in CoreTechniques :
               \/ /\ tech = <<>>
                  /\ result' = ErrorResult
                  /\ fault' = "OSError"
                  /\ UNCHANGED <<fs, dirs>>
               \/ /\ result' = [success |-> FALSE, skipped_compression |-> FALSE,
                                has_error |-> TRUE, output_file |-> <<output_path>>,
                                original_size |-> SourceSize, final_size |-> 0,
                                techniques_used |-> tech]
                  /\ fault' = "optimize_gif"
                  /\ dirs' = dirs \cup {output_path.dir}
                  /\ UNCHANGED fs
               \/ \E sz \in Sizes :
                  /\ UNCHANGED fault
                  /\ dirs' = dirs \cup {output_path.dir}
                  /\ result' = [success |-> sz <= call.max_size,
                                skipped_compression |-> FALSE,
                                has_error |-> FALSE,
                                output_file |-> <<final_output_path>>,
                                original_size |-> SourceSize, final_size |-> sz,
                                techniques_used |-> tech]
                  /\ fs' = [fs EXCEPT ![RealFile(final_output_path)] = File("NEW", sz)]
    /\ fpc' = "COMPRESS_RETURNED"
    /\ UNCHANGED <<call, optVars, dedupVars, dirVars, toolVars>>

NextFile ==
    \/ StatFails
    \/ SkipPath
    \/ CustomSettingsFail
    \/ CoreCompress

SpecFile == InitFile /\ [][NextFile]_vars

\* C3 (as claimed): the skip path is taken exactly when force_compression is
\* false and the input size is <= the target; on it no pipeline stage runs
\* and the result is the successful, skipped, no_compression_needed record;
\* otherwise the result is neither marked skipped nor tagged.
C3_SkipPathResult ==
    fpc # "CALLED" =>
        /\ fpc = "SKIP_RETURNED" <=>
              (SourceExists /\ ~call.force_compression /\ SourceSize <= call.max_size)
        /\ fpc = "SKIP_RETURNED" =>
              /\ ~pipelineRan
              /\ result.success
              /\ result.skipped_compression
              /\ result.final_size = result.original_size
              /\ result.techniques_used = <<"no_compression_needed">>
        /\ fpc # "SKIP_RETURNED" =>
              /\ ~result.skipped_compression
              /\ \A i \in 1..Len(result.techniques_used) :
                    result.techniques_used[i] # "no_compression_needed"

\* C4: on the skip path the file at the reported output_file holds the bytes
\* of the input, and the input file is unchanged, for every output_path and
\* target_filename.
C4_SkipOutputIdentical ==
    fpc = "SKIP_RETURNED" =>
        /\ fs[RealFile(call.input_path)] # NoFile
        /\ fs[RealFile(call.input_path)][1] = "SRC"
        /\ result.output_file # <<>> =>
              fs[RealFile(result.output_file[1])] = fs[RealFile(call.input_path)]

\* the source was copied over an older file, under the target name, in the
\* directory of output_path
C4_Witness ==
    /\ fpc = "SKIP_RETURNED"
    /\ call.output_path = [dir |-> "b", name |-> "o.gif"]
    /\ call.target_filename = "t"
    /\ result.output_file = <<[dir |-> "b", name |-> "t.gif"]>>
    /\ fs[[dir |-> "b", name |-> "t.gif"]] = fs[SourceFile]
    /\ fs[[dir |-> "b", name |-> "o.gif"]] = File("OLD", 1)

----------------------------------------------------------------------------
(* Claims about the audit trail and the frames of optimize_gif *)

\* the techniques in the order of their stages
TechniqueOrder == <<"duplicate_removal", "frame_timing_optimization",
                    "color_reduction", "dimension_reduction">>

TechniqueRank(tag) == CHOOSE r \in 1..Len(TechniqueOrder) : TechniqueOrder[r] = tag

HasTechnique(tag) ==
    \E i \in 1..Len(stats.techniques_used) : stats.techniques_used[i] = tag

\* C11: techniques_used is an order-preserving sub-list of duplicate_removal,
\* frame_timing_optimization, color_reduction, dimension_reduction, without
\* repetition.
C11_TechniquesInOrder ==
    LET t == stats.techniques_used IN
    /\ \A i \in 1..Len(t) : t[i] \in Techniques
    /\ \A i, j \in 1..Len(t) : i < j => TechniqueRank(t[i]) < TechniqueRank(t[j])

\* a run that applied all four techniques
C11_Witness ==
    /\ pc \in Terminal
    /\ stats.techniques_used = TechniqueOrder


\* the step records the tag
TechniqueAdded(tag) == ~HasTechnique(tag) /\ HasTechnique(tag)'

\* C12: a technique tag is recorded only by a step that changed the artifact:
\* duplicate_removal only with a frame dropped, frame_timing_optimization only
\* with a duration raised, dimension_reduction only with the frames resized to
\* different dimensions, color_reduction only with a palette found below
\* max_colors, which is then the palette of the final encode.
C12_TagOnlyIfChanged ==
    [][/\ TechniqueAdded("duplicate_removal") => Len(frames') < Len(frames)
       /\ TechniqueAdded("frame_timing_optimization") =>
              \E i \in 1..Len(durations) : durations'[i] > durations[i]
       /\ TechniqueAdded("dimension_reduction") => dims' # dims
       /\ TechniqueAdded("color_reduction") => best_colors < settings.max_colors
       /\ (HasTechnique("color_reduction") /\ encode_colors' # encode_colors) =>
              encode_colors' < settings.max_colors]_vars

\* a finished run where all four stages changed the artifact
C12_Witness ==
    /\ pc \in Terminal
    /\ Len(stats.techniques_used) = Len(TechniqueOrder)
    /\ Len(frames) < original_frame_count
    /\ encode_colors < settings.max_colors
    /\ dims = <<2, 2>>


\* C13: after optimize_gif has returned, no trial file of the palette search
\* is left, on any exit path.
C13_NoTrialFileLeft == pc \in Terminal => "trial" \notin tmpFiles


\* _remove_duplicates called on its own, or inside a run of optimize_gif
InitFrames == Init \/ InitDedup
NextFrames == Next \/ NextDedup
SpecFrames == InitFrames /\ [][NextFrames]_vars

\* out is taken from the frames 1..n in their order, starting with frame 1
RetainsFromFirst(out, n) ==
    /\ Len(out) <= n
    /\ n > 0 => (out # <<>> /\ out[1] = 1)
    /\ \A i \in 1..Len(out) : out[i] \in 1..n
    /\ \A i, j \in 1..Len(out) : i < j => out[i] < out[j]

\* C17: _remove_duplicates returns the first frame and an order-preserving
\* selection of the others, never more frames than it was given; the frames
\* of a run, and so of its final artifact, are never more than the source's.
C17_FramesRetained ==
    /\ dd_pc = "RETURNED" => RetainsFromFirst(dd_out.frames, Len(dd_in.frames))
    /\ original_frame_count > 0 => RetainsFromFirst(frames, original_frame_count)

\* the middle frame of three was dropped, the first and the last retained
C17_Witness ==
    /\ dd_pc = "RETURNED"
    /\ dd_in.frames = <<1, 2, 3>>
    /\ dd_out.frames = <<1, 3>>


HasStage(name) == \E i \in 1..Len(stages) : stages[i] = name

\* C18: from the load on, frames and durations have the same length, which
\* is not 0; from the timing stage on, every duration is at least
\* settings.min_frame_duration.
C18_FramesAndDurations ==
    /\ HasStage("LOADED") => (Len(frames) = Len(durations) /\ Len(frames) > 0)
    /\ HasStage("TIMING_NORMALIZED") =>
           \A i \in 1..Len(durations) : durations[i] >= settings.min_frame_duration

\* both frames of the source were below the floor and were raised to it
C18_Witness ==
    /\ HasStage("TIMING_NORMALIZED")
    /\ original_frame_count = 2
    /\ durations = <<settings.min_frame_duration, settings.min_frame_duration>>
    /\ HasTechnique("frame_timing_optimization")


RECURSIVE Count(_, _)
Count(s, x) == IF s = <<>> THEN 0
               ELSE (IF Head(s) = x THEN 1 ELSE 0) + Count(Tail(s), x)

\* C20: the dimension reducer runs only on an encode larger than max_file_size
\* and with allow_resize set, at most once in a run, and makes a single
\* re-encode: a run has at most the encode and one resized artifact.
C20_ResizeOnceWhenNeeded ==
    /\ (HasStage("RESIZED") \/ "resize" \in tmpFiles) =>
           /\ settings.allow_resize
           /\ artifacts # <<>>
           /\ artifacts[1] > settings.max_file_size
    /\ Count(stages, "RESIZED") <= 1
    /\ Len(artifacts) <= 2
    /\ Len(artifacts) = 2 <=> HasStage("RESIZED")

\* a run that was resized once and still ended over the target
C20_Witness ==
    /\ pc = "SIZE_EXCEEDED"
    /\ Count(stages, "RESIZED") = 1
    /\ Len(artifacts) = 2
    /\ artifacts[2] > settings.max_file_size


\* C14: compress_gif_file raises nothing: every call returns a dict, and the
\* dict of a call in which a fault occurred has success false and an error
\* text.
C14_NeverRaises ==
    /\ fpc # "RAISED"
    /\ (fpc \notin {"IDLE", "CALLED"} /\ fault # "") =>
           (~result.success /\ result.has_error)

\* the TypeError of the settings constructor came back as an error dict
C14_Witness ==
    /\ fpc = "COMPRESS_RETURNED"
    /\ fault = "TypeError"
    /\ ~pipelineRan
    /\ result = ErrorResult

\* C16: a call with non-empty custom_settings on an input that is not
\* skipped builds the CompressionSettings and runs the core pipeline with them.
C16_CustomSettingsRunPipeline ==
    (/\ fpc \notin {"IDLE", "CALLED"}
     /\ call.custom_settings
     /\ SourceExists
     /\ ~SkipsCompression(call.force_compression, SourceSize, call.max_size))
        => pipelineRan


----------------------------------------------------------------------------
(* GifOptimizer._optimize_frame_timing as a pure function *)

\* min_frame_duration of the presets of get_optimal_settings_for_target_size, ms
MinFrameDurationChoices == {100, 120, 150}

TimingInputs ==
    UNION {[durations : [1..n -> DurationChoices],
            floor : MinFrameDurationChoices] : n \in 0..MaxLen}

InitTiming ==
    /\ dd_pc = "CALL_TIMING"
    /\ dd_in \in TimingInputs
    /\ dd_out = <<>>
    /\ OptIdle /\ FileIdle /\ DirIdle /\ ToolIdle

\* the function applied to the input
OptimizeFrameTimingCall ==
    /\ dd_pc = "CALL_TIMING"
    /\ dd_out' = <<OptimizeFrameTiming(dd_in.durations, dd_in.floor)>>
    /\ dd_pc' = "TIMED"
    /\ UNCHANGED <<dd_in, optVars, fileVars, dirVars, toolVars>>

\* the function applied to its own result
OptimizeFrameTimingAgain ==
    /\ dd_pc = "TIMED"
    /\ dd_out' = Append(dd_out, OptimizeFrameTiming(dd_out[1], dd_in.floor))
    /\ dd_pc' = "TIMED_TWICE"
    /\ UNCHANGED <<dd_in, optVars, fileVars, dirVars, toolVars>>

NextTiming ==
    \/ OptimizeFrameTimingCall
    \/ OptimizeFrameTimingAgain

SpecTiming == InitTiming /\ [][NextTiming]_vars

\* C19: _optimize_frame_timing returns, position by position, the larger of
\* the duration and min_frame_duration: no duration is lowered, number and
\* order are kept, and a second application changes nothing.
C19_TimingFloor ==
    /\ dd_pc \in {"TIMED", "TIMED_TWICE"} =>
           LET d == dd_in.durations
               r == dd_out[1]
           IN /\ Len(r) = Len(d)
              /\ \A i \in 1..Len(d) :
                    /\ r[i] = IF d[i] >= dd_in.floor THEN d[i] ELSE dd_in.floor
                    /\ r[i] >= d[i]
    /\ dd_pc = "TIMED_TWICE" => dd_out[2] = dd_out[1]

\* two durations raised to the floor, the one above it kept in its place
C19_Witness ==
    /\ dd_pc = "TIMED_TWICE"
    /\ dd_in.durations = <<20, 150, 100>>
    /\ dd_out[1] = <<120, 150, 120>>


----------------------------------------------------------------------------
(* CompressionService.compress_directory (app/compressor/compression_service.py) *)

MaxFiles == 3

\* the lists input_dir.glob(pattern) can give: up to MaxFiles files, each once
MatchLists ==
    UNION {{f \in [1..n -> 1..MaxFiles] : \A i, j \in 1..n : i # j => f[i] # f[j]}
           : n \in 0..MaxFiles}

\* lines 217-225
InitialResults ==
    [success |-> TRUE, has_error |-> FALSE, processed_count |-> 0,
     successful_count |-> 0, failed_count |-> 0,
     total_size_before_mb |-> 0, total_size_after_mb |-> 0,
     file_results |-> <<>>, overall_reduction_percent |-> <<>>]

\* lines 206-210: the dict returned when nothing matched
NoFilesResult ==
    [InitialResults EXCEPT !.success = FALSE, !.has_error = TRUE]

InitDir ==
    /\ d_pc = "CALLED"
    /\ gif_files \in MatchLists
    /\ index = 1
    /\ results = InitialResults
    /\ OptIdle /\ FileIdle /\ DedupIdle /\ ToolIdle

\* lines 203-212
Glob ==
    /\ d_pc = "CALLED"
    /\ IF gif_files = <<>>
       THEN d_pc' = "RETURNED" /\ results' = NoFilesResult
       ELSE d_pc' = "LOOP" /\ UNCHANGED results
    /\ UNCHANGED <<gif_files, index, optVars, fileVars, dedupVars, toolVars>>

\* the dict compress_gif returns for a finished run (its lines 68-91), sizes
\* in the unit of max_size_mb
JobResult(file, original_size, final_size) ==
    [success |-> final_size <= TargetSize, has_error |-> FALSE, input_file |-> file,
     original_size_mb |-> original_size, final_size_mb |-> final_size]

\* the dict compress_gif returns for a fault of optimize_gif, and the dict
\* compress_directory makes of an exception of compress_gif (lines 246-253)
JobError(file) ==
    [success |-> FALSE, has_error |-> TRUE, input_file |-> file,
     original_size_mb |-> 0, final_size_mb |-> 0]

\* the except block is inside the for loop: the loop goes on with the next file
AbortLoop(i, n) == n + 1
NextFileIndex(i, n) == i + 1

\* lines 227-253: one iteration of the loop. compress_gif returns the dict of
\* a finished run, returns an error dict, or raises (FileNotFoundError at its
\* line 46 for a matched name that does not exist, such as a dangling link).
CompressOne ==
    /\ d_pc = "LOOP"
    /\ index <= Len(gif_files)
    /\ LET gif_file == gif_files[index] IN
       \/ \E final_size \in Sizes :
            LET job == JobResult(gif_file, MaxSize, final_size) IN
            /\ results' =
                 [results EXCEPT
                    !.file_results = Append(@, job),
                    !.processed_count = @ + 1,
                    !.successful_count = IF job.success THEN @ + 1 ELSE @,
                    !.total_size_before_mb =
                        IF job.success THEN @ + job.original_size_mb ELSE @,
                    !.total_size_after_mb =
                        IF job.success THEN @ + job.final_size_mb ELSE @,
                    !.failed_count = IF job.success THEN @ ELSE @ + 1]
            /\ index' = index + 1
       \/ /\ results' = [results EXCEPT !.file_results = Append(@, JobError(gif_file)),
                                        !.processed_count = @ + 1,
                                        !.failed_count = @ + 1]
          /\ index' = index + 1
       \/ /\ results' = [results EXCEPT !.failed_count = @ + 1,
                                        !.file_results = Append(@, JobError(gif_file))]
          /\ index' = NextFileIndex(index, Len(gif_files))
    /\ UNCHANGED <<d_pc, gif_files, optVars, fileVars, dedupVars, toolVars>>

\* lines 255-261: after the loop (the percentage rounded down)
ReturnResults ==
    /\ d_pc = "LOOP"
    /\ index > Len(gif_files)
    /\ results' =
         IF results.successful_count > 0
         THEN [results EXCEPT !.overall_reduction_percent =
                 <<((results.total_size_before_mb - results.total_size_after_mb) * 100)
                     \div results.total_size_before_mb>>]
         ELSE results
    /\ d_pc' = "RETURNED"
    /\ UNCHANGED <<gif_files, index, optVars, fileVars, dedupVars, toolVars>>

NextDir ==
    \/ Glob
    \/ CompressOne
    \/ ReturnResults

SpecDir == InitDir /\ [][NextDir]_vars

\* C15: the batch result has one file_results record for each matched file,
\* in match order, whatever the jobs did: a job that failed or raised never
\* keeps the files after it from being processed and reported.
C15_OneRecordPerFile ==
    (d_pc = "RETURNED" /\ gif_files # <<>>) =>
        /\ Len(results.file_results) = Len(gif_files)
        /\ \A i \in 1..Len(gif_files) : results.file_results[i].input_file = gif_files[i]

\* the job of the first of three files raised, the two after it were
\* processed and the last one succeeded
C15_Witness ==
    /\ d_pc = "RETURNED"
    /\ Len(gif_files) = MaxFiles
    /\ results.processed_count = 2
    /\ results.failed_count = 2
    /\ results.file_results[1].has_error
    /\ results.file_results[3].success


----------------------------------------------------------------------------
(* The dimensions computed by GifOptimizer._resize_gif_if_needed *)

MaxDim == 4
SmallMaxDim == 2

\* original dimensions, a file over max_file_size, and maxima that cap the
\* scaled dimensions or do not
ResizeInputs ==
    {i \in [dims : (1..MaxDim) \X (1..MaxDim),
            current_size : Sizes,
            settings : [max_file_size : Sizes,
                        max_width : {SmallMaxDim, MaxWidth},
                        max_height : {SmallMaxDim, MaxHeight}]] :
        i.current_size > i.settings.max_file_size}

InitResize ==
    /\ dd_pc = "CALL_RESIZE"
    /\ dd_in \in ResizeInputs
    /\ dd_out = <<>>
    /\ OptIdle /\ FileIdle /\ DirIdle /\ ToolIdle

\* lines 332-355: the dimensions handed to Image.resize, or those at hand
\* when line 346 divides by a new_height of 0
ResizeDimsCall ==
    /\ dd_pc = "CALL_RESIZE"
    /\ LET capped == CappedDims(dd_in.dims, dd_in.current_size, dd_in.settings) IN
       dd_out' = IF capped[2] = 0 THEN capped
                 ELSE ResizeDims(dd_in.dims, dd_in.current_size, dd_in.settings)
    /\ dd_pc' = IF ResizeRaises(dd_in.dims, dd_in.current_size, dd_in.settings)
                THEN "RESIZE_RAISED" ELSE "RESIZE_RETURNED"
    /\ UNCHANGED <<dd_in, optVars, fileVars, dirVars, toolVars>>

NextResize == ResizeDimsCall

SpecResize == InitResize /\ [][NextResize]_vars

\* C21: the dimensions of a resize keep the original aspect ratio up to the
\* truncation of one dimension: one of them is the whole part of the value
\* the other one and the original ratio give.
C21_AspectRatioKept ==
    dd_pc = "RESIZE_RETURNED" =>
        LET old == dd_in.dims
            new == dd_out
        IN \/ new[1] = (new[2] * old[1]) \div old[2]
           \/ new[2] = (new[1] * old[2]) \div old[1]

\* a square frame whose scaled width was capped by max_width
C21_Witness ==
    /\ dd_pc = "RESIZE_RETURNED"
    /\ dd_in.dims = <<MaxDim, MaxDim>>
    /\ dd_in.settings.max_width = SmallMaxDim
    /\ dd_in.settings.max_height = MaxHeight
    /\ dd_out = <<SmallMaxDim, SmallMaxDim>>

\* C22: the computed new width and height are each >= 1, not above the
\* original dimension, and not above max_width / max_height.
C22_DimsValid ==
    dd_pc \in {"RESIZE_RETURNED", "RESIZE_RAISED"} =>
        /\ dd_out[1] >= 1 /\ dd_out[2] >= 1
        /\ dd_out[1] <= dd_in.dims[1] /\ dd_out[2] <= dd_in.dims[2]
        /\ dd_out[1] <= dd_in.settings.max_width
        /\ dd_out[2] <= dd_in.settings.max_height


----------------------------------------------------------------------------
(* ExternalToolManager (app/compressor/external_tools.py) *)

MaxCalls == 2

Tools == {"gifsicle", "gifski"}
LossyLadder == <<60, 80, 100, 120, 150>>
ColorLadder == <<128, 96, 64, 48>>
\* ExternalToolSettings.gifsicle_lossy, and lossy_level of the color ladder
GifsicleLossy == 80
ColorLadderLossy == 150

\* sizes of the files a tool writes: at the target, and above it
ToolSizes == {TargetSize, MaxSize}

\* the calls made on a manager; target: target_size_mb is given; source: the
\* input file, or the frames directory with PNG frames in it, exists
ToolCalls ==
    [op : {"detect"}, target : {FALSE}, source : {TRUE}]
    \cup [op : Tools, target : BOOLEAN, source : BOOLEAN]

NoRun == [exit |-> "none", wrote |-> FALSE, reported |-> FALSE]
NoResult == [success |-> FALSE, error |-> ""]

\* __init__ (lines 43-45): an empty cache, nothing probed
InitTools ==
    /\ t_pc = "READY"
    /\ installed \in [Tools -> {"ok", "broken", "missing"}]
    /\ tool_cache = {}
    /\ ncalls = 0
    /\ t_call = <<>> /\ cache0 = {} /\ probes = <<>> /\ cmds = <<>> /\ rung = 0
    /\ attempts = <<>>
    /\ out_file \in {0} \cup ToolSizes
    /\ out_file0 = out_file
    /\ last_run = NoRun /\ met_at = 0 /\ timed_out = FALSE /\ written_by = 0
    /\ t_result = NoResult
    /\ OptIdle /\ FileIdle /\ DedupIdle /\ DirIdle

\* _find_executable and _test_gifsicle / _test_gifski (lines 275-303): the
\* tool is on the PATH and its --version run exits 0
TestToolFound(state) == state # "missing"
TestTool(state) == state = "ok"

\* detect_tools (lines 48-77): both tools are probed, and the path of each
\* one that passes is cached
DetectTools(cache) == cache \cup {t \in Tools : TestTool(installed[t])}
ProbesOfDetect == <<"gifsicle", "gifski">>

\* self._tool_cache.get("<tool>_path") (lines 96-97, 210-211)
CacheNeverHit(cache, tool) == FALSE
CacheHit(cache, tool) == tool \in cache

\* what a call starts with
Begin(c) ==
    /\ t_call' = c
    /\ cache0' = tool_cache
    /\ out_file0' = out_file
    /\ cmds' = <<>> /\ attempts' = <<>> /\ met_at' = 0 /\ timed_out' = FALSE
    /\ written_by' = 0
    /\ last_run' = NoRun
    /\ rung' = 1

\* what a call ends with
Return(success, error) ==
    /\ t_result' = [success |-> success, error |-> error]
    /\ t_pc' = "READY"
    /\ ncalls' = ncalls + 1

\* a direct call of detect_tools
DetectCall ==
    /\ t_pc = "READY" /\ ncalls < MaxCalls
    /\ Begin([op |-> "detect", target |-> FALSE, source |-> TRUE])
    /\ tool_cache' = DetectTools(tool_cache)
    /\ probes' = ProbesOfDetect
    /\ Return(TRUE, "")
    /\ UNCHANGED <<installed, out_file>>
    /\ UNCHANGED <<optVars, fileVars, dedupVars, dirVars>>

\* lines 96-108 and 210-224: the cached path or a detection, then the checks
\* of the source. The call returns here or goes on to run the tool.
StartCall ==
    /\ t_pc = "READY" /\ ncalls < MaxCalls
    /\ \E c \in ToolCalls :
        /\ c.op \in Tools
        /\ Begin(c)
        /\ LET hit == CacheHit(tool_cache, c.op)
               cache == IF hit THEN tool_cache ELSE DetectTools(tool_cache)
           IN /\ tool_cache' = cache
              /\ probes' = IF hit THEN <<>> ELSE ProbesOfDetect
              /\ IF c.op \notin cache
                 THEN Return(FALSE, "not available")
                 ELSE IF ~c.source
                      THEN Return(FALSE, "not found")
                      ELSE /\ t_pc' = IF c.op = "gifski" THEN "GIFSKI"
                                      ELSE IF c.target THEN "LOSSY" ELSE "SINGLE"
                           /\ UNCHANGED <<t_result, ncalls>>
    /\ UNCHANGED <<installed, out_file>>
    /\ UNCHANGED <<optVars, fileVars, dedupVars, dirVars>>

\* the ways a subprocess.run of a tool ends: the exit, and the size of the
\* file it wrote at output_path (0: it wrote nothing). A tool that exits 0
\* has written its output; one that was killed at the timeout may have
\* written a part; one that could not be started has written nothing.
Runs ==
    {r \in [exit : {"zero", "nonzero", "timeout", "exception"},
            wrote : {0} \cup ToolSizes] :
        /\ r.exit = "zero" => r.wrote # 0
        /\ r.exit = "exception" => r.wrote = 0}

\* the file at output_path after a run
Written(r) == IF r.wrote # 0 THEN r.wrote ELSE out_file

\* result["success"] of _run_gifsicle (lines 327-347)
RunSuccessByExit(r, exists) == r.exit = "zero"
RunSuccess(r, exists) ==
    \/ r.exit = "zero"
    \/ r.exit = "nonzero" /\ exists

\* one _run_gifsicle with the command line cmd
RunGifsicle(r, cmd) ==
    /\ cmds' = Append(cmds, cmd)
    /\ out_file' = Written(r)
    /\ last_run' = [exit |-> r.exit, wrote |-> r.wrote # 0,
                    reported |-> RunSuccess(r, Written(r) # 0)]
    /\ timed_out' = (timed_out \/ r.exit = "timeout")
    /\ written_by' = IF r.wrote # 0 THEN Len(cmds) + 1 ELSE written_by
    /\ met_at' = IF /\ met_at = 0
                    /\ t_call.target
                    /\ RunSuccess(r, Written(r) # 0)
                    /\ Written(r) # 0
                    /\ Written(r) <= TargetSize
                 THEN Len(cmds) + 1 ELSE met_at

\* file_size <= target_bytes (lines 134, 154): the loop is left
LadderGoesOn(file_size, target_bytes) == FALSE
LadderStops(file_size, target_bytes) == file_size <= target_bytes

\* line 143: not attempts or not attempts[-1]["under_target"]
EntersColorLadderAlways(att) == TRUE
EntersColorLadder(att) == att = <<>> \/ ~att[Len(att)].under_target

\* lines 117-141: one iteration of the lossy ladder, and line 143 after the
\* last one
LossyStep ==
    /\ t_pc = "LOSSY"
    /\ \E r \in Runs :
        LET lossy == LossyLadder[rung]
            file_size == Written(r)
            recorded == RunSuccess(r, file_size # 0) /\ file_size # 0
            att == IF recorded
                   THEN Append(attempts,
                               [lossy |-> lossy, size |-> file_size,
                                under_target |-> file_size <= TargetSize])
                   ELSE attempts
            left == (recorded /\ LadderStops(file_size, TargetSize))
                    \/ rung = Len(LossyLadder)
        IN /\ RunGifsicle(r, [lossy |-> lossy, colors |-> 0])
           /\ attempts' = att
           /\ IF left
              THEN /\ t_pc' = IF EntersColorLadder(att) THEN "COLORS" ELSE "FINAL"
                   /\ rung' = 1
              ELSE /\ rung' = rung + 1
                   /\ UNCHANGED t_pc
    /\ UNCHANGED <<installed, tool_cache, ncalls, t_call, cache0, probes, out_file0,
                   t_result>>
    /\ UNCHANGED <<optVars, fileVars, dedupVars, dirVars>>

\* lines 144-157: one iteration of the color ladder
ColorStep ==
    /\ t_pc = "COLORS"
    /\ \E r \in Runs :
        LET file_size == Written(r)
            left == \/ /\ RunSuccess(r, file_size # 0) /\ file_size # 0
                       /\ LadderStops(file_size, TargetSize)
                    \/ rung = Len(ColorLadder)
        IN /\ RunGifsicle(r, [lossy |-> ColorLadderLossy, colors |-> ColorLadder[rung]])
           /\ IF left
              THEN t_pc' = "FINAL" /\ rung' = 1
              ELSE rung' = rung + 1 /\ UNCHANGED t_pc
    /\ UNCHANGED <<installed, tool_cache, ncalls, t_call, cache0, probes, attempts,
                   out_file0, t_result>>
    /\ UNCHANGED <<optVars, fileVars, dedupVars, dirVars>>

\* lines 158-165: the single run of a call without target
SingleRun ==
    /\ t_pc = "SINGLE"
    /\ \E r \in Runs : RunGifsicle(r, [lossy |-> GifsicleLossy, colors |-> 0])
    /\ t_pc' = "FINAL"
    /\ UNCHANGED <<installed, tool_cache, ncalls, t_call, cache0, probes, rung,
                   attempts, out_file0, t_result>>
    /\ UNCHANGED <<optVars, fileVars, dedupVars, dirVars>>

\* lines 167-185: the result of optimize_with_gifsicle
GifsicleReturn ==
    /\ t_pc = "FINAL"
    /\ IF out_file # 0
       THEN Return(TRUE, "")
       ELSE Return(FALSE, "no output file")
    /\ UNCHANGED <<installed, tool_cache, t_call, cache0, probes, cmds, rung, attempts,
                   out_file, out_file0, last_run, met_at, timed_out, written_by>>
    /\ UNCHANGED <<optVars, fileVars, dedupVars, dirVars>>

\* lines 226-273: the run of gifski and the result of optimize_with_gifski
GifskiRun ==
    /\ t_pc = "GIFSKI"
    /\ \E r \in Runs :
        /\ out_file' = Written(r)
        /\ last_run' = [exit |-> r.exit, wrote |-> r.wrote # 0,
                        reported |-> r.exit = "zero" /\ Written(r) # 0]
        /\ timed_out' = (r.exit = "timeout")
        /\ written_by' = IF r.wrote # 0 THEN 1 ELSE written_by
        /\ IF r.exit = "timeout" THEN Return(FALSE, "timed out")
           ELSE IF r.exit = "exception" THEN Return(FALSE, "exception")
           ELSE IF r.exit = "zero" /\ Written(r) # 0 THEN Return(TRUE, "")
           ELSE Return(FALSE, "failed")
    /\ UNCHANGED <<installed, tool_cache, t_call, cache0, probes, cmds, rung, attempts,
                   out_file0, met_at>>
    /\ UNCHANGED <<optVars, fileVars, dedupVars, dirVars>>

NextTools ==
    \/ DetectCall
    \/ StartCall
    \/ LossyStep
    \/ ColorStep
    \/ SingleRun
    \/ GifsicleReturn
    \/ GifskiRun

SpecTools == InitTools /\ [][NextTools]_vars


\* the call of optimize_with_gifsicle with a target that is running or was
\* made last
GifsicleTargetCall ==
    /\ t_call # <<>>
    /\ t_call.op = "gifsicle"
    /\ t_call.target
\* a call has returned
Returned == t_pc = "READY" /\ ncalls > 0

\* C23: with a target, gifsicle is run with the lossy levels 60, 80, 100,
\* 120, 150 in this order, and no run of the lossy ladder follows the first
\* successful run that left an output of size <= target.
C23_LossyLadder ==
    GifsicleTargetCall =>
        /\ \A i \in 1..Len(cmds) :
              i <= Len(LossyLadder) => cmds[i] = [lossy |-> LossyLadder[i], colors |-> 0]
        /\ \A i \in 1..Len(cmds) : cmds[i].colors = 0 => i <= Len(LossyLadder)
        /\ met_at # 0 => \A i \in 1..Len(cmds) : i > met_at => cmds[i].colors # 0

\* the third lossy level met the target and the call returned after it
C23_Witness ==
    /\ Returned /\ GifsicleTargetCall
    /\ met_at = 3
    /\ cmds = <<[lossy |-> 60, colors |-> 0], [lossy |-> 80, colors |-> 0],
                [lossy |-> 100, colors |-> 0]>>
    /\ t_result.success

\* C24: the color ladder is entered exactly when no run of the lossy ladder
\* met the target; its runs are at lossy 150 with the color caps 128, 96, 64,
\* 48 in this order; no run follows the one that met the target, and a call
\* makes at most 9 runs.
C24_ColorLadder ==
    GifsicleTargetCall =>
        /\ \A i \in 1..Len(cmds) :
              i > Len(LossyLadder) =>
                  cmds[i] = [lossy |-> ColorLadderLossy,
                             colors |-> ColorLadder[i - Len(LossyLadder)]]
        /\ Len(cmds) <= Len(LossyLadder) + Len(ColorLadder)
        /\ met_at # 0 => Len(cmds) = met_at
        /\ (t_pc \in {"FINAL", "READY"} /\ cmds # <<>>) =>
              (met_at \in 1..Len(LossyLadder) <=> Len(cmds) <= Len(LossyLadder))

\* no run met the target: the five lossy levels and the four color caps
C24_Witness ==
    /\ Returned /\ GifsicleTargetCall
    /\ met_at = 0
    /\ Len(cmds) = 9
    /\ cmds[9] = [lossy |-> 150, colors |-> 48]

\* C25: a gifsicle run that exits non-zero is reported successful exactly
\* when it produced the output file, and optimize_with_gifsicle reports
\* success exactly when the output file exists at the end of the call.
C25_SuccessByOutputFile ==
    (t_call # <<>> /\ t_call.op = "gifsicle") =>
        /\ last_run.exit = "nonzero" => (last_run.reported <=> last_run.wrote)
        /\ Returned => (t_result.success <=> out_file # 0)

\* C26: a call in which a subprocess hit its timeout returns a failure whose
\* error names the timeout.
C26_TimeoutReported ==
    (Returned /\ timed_out) => (~t_result.success /\ t_result.error = "timed out")

\* C27: a call for a tool that is not found or fails its --version probe
\* returns the failure 'not available', has not run the tool and has not
\* touched the output file.
C27_UnavailableTool ==
    (Returned /\ t_call.op \in Tools /\ installed[t_call.op] # "ok") =>
        /\ t_result = [success |-> FALSE, error |-> "not available"]
        /\ cmds = <<>>
        /\ last_run = NoRun
        /\ out_file = out_file0

\* gifsicle is on the PATH but fails its probe, and the older file at the
\* output path is still there
C27_Witness ==
    /\ Returned
    /\ t_call.op = "gifsicle"
    /\ installed["gifsicle"] = "broken"
    /\ t_result.error = "not available"
    /\ out_file0 # 0

\* C29: nothing is probed or cached before the first call; a call for a tool
\* whose path is cached uses that path and probes nothing; a cached path
\* stays cached.
C29_CacheReused ==
    /\ ncalls = 0 /\ t_pc = "READY" => (tool_cache = {} /\ probes = <<>>)
    /\ cache0 \subseteq tool_cache
    /\ (t_call # <<>> /\ t_call.op \in Tools /\ t_call.op \in cache0) =>
           (probes = <<>> /\ tool_cache = cache0)

\* the second call for gifsicle ran the tool without a probe
C29_Witness ==
    /\ Returned
    /\ ncalls = 2
    /\ t_call.op = "gifsicle"
    /\ "gifsicle" \in cache0
    /\ probes = <<>>
    /\ cmds # <<>>

\* C28: compress_gif_file on an input over the target runs the in-process
\* pipeline, starts no external process and raises nothing.
C28_InProcessFallback ==
    (fpc \notin {"IDLE", "CALLED"} /\ SourceExists /\ SourceSize > call.max_size) =>
        /\ fpc # "RAISED"
        /\ pipelineRan
        /\ cmds = <<>> /\ probes = <<>>

\* C30: a run that ends with an error has written no file at the final
\* output path.
C30_NoPartialArtifact == pc = "FAILED" => outFile = <<>>

----------------------------------------------------------------------------
(* GifOptimizer._remove_duplicates on frames with pixel content.  A frame is
   of one colour, given by the value of its 8-bit channels; dd_in.frames[i]
   is the value of frame i and dd_out.frames lists the indices retained. *)

\* the largest value of an 8-bit channel, and the number of such values
MaxPixel == 255
PixelRange == MaxPixel + 1

\* channel values of the frames the function is called with
PixelChoices == {0, 10, 16}

\* max_possible_mse = 255 ** 2
MaxPossibleMse == MaxPixel * MaxPixel

\* duplicate_threshold in units of 1 / max_possible_mse: the default 0.95
\* (0.95 * 65025 = 61773.75, so mse / 65025 < 0.95 iff mse < 61774) and
\* 50 / 65025
DefaultThresholdMse == (DuplicateThreshold * MaxPossibleMse) \div 100 + 1
ThresholdChoices == {50, DefaultThresholdMse}

\* np.mean((arr1 - arr2) ** 2) on uint8 arrays: the difference and the
\* square are both taken modulo 256; the result is mse, the numerator of
\* mse / max_possible_mse
CalculateFrameSimilarity(p1, p2) ==
    LET diff == (p1 - p2) % PixelRange
    IN (diff * diff) % PixelRange

\* the frame that frame i is compared with: frames[i-1]
LastRetainedFrame(fr, kept, i) == fr[kept[Len(kept)]]
PreviousFrame(fr, kept, i) == fr[i - 1]

\* lines 228-238 with the similarity computed from the two frames
RECURSIVE DedupPixelsLoop(_, _, _, _, _, _)
DedupPixelsLoop(fr, du, threshold, i, kept, od) ==
    IF i > Len(fr) THEN [frames |-> kept, durations |-> od]
    ELSE IF KeepFrame(CalculateFrameSimilarity(PreviousFrame(fr, kept, i), fr[i]),
                      threshold)
         THEN DedupPixelsLoop(fr, du, threshold, i + 1, Append(kept, i), Append(od, du[i]))
         ELSE DedupPixelsLoop(fr, du, threshold, i + 1, kept, MergeDuration(od, du[i]))

\* lines 222-240
RemoveDuplicatesOfPixels(fr, du, threshold) ==
    IF Len(fr) <= 1 THEN [frames |-> [i \in 1..Len(fr) |-> i], durations |-> du]
    ELSE DedupPixelsLoop(fr, du, threshold, 2, <<1>>, <<du[1]>>)

PixelInputs ==
    UNION {[frames : [1..n -> PixelChoices],
            durations : [1..n -> DurationChoices],
            threshold : ThresholdChoices] : n \in 0..MaxLen}

InitPixels ==
    /\ dd_pc = "CALL_PIXELS"
    /\ dd_in \in PixelInputs
    /\ dd_out = <<>>
    /\ OptIdle /\ FileIdle /\ DirIdle /\ ToolIdle

RemoveDuplicatesOfPixelsCall ==
    /\ dd_pc = "CALL_PIXELS"
    /\ dd_out' = RemoveDuplicatesOfPixels(dd_in.frames, dd_in.durations, dd_in.threshold)
    /\ dd_pc' = "PIXELS_RETURNED"
    /\ UNCHANGED <<dd_in, optVars, fileVars, dirVars, toolVars>>

NextPixels == RemoveDuplicatesOfPixelsCall

SpecPixels == InitPixels /\ [][NextPixels]_vars

\* frame i of the input is among the frames returned
Retained(i) == \E k \in 1..Len(dd_out.frames) : dd_out.frames[k] = i

\* the durations of the input frames after frame i up to the next retained one
RECURSIVE MergedAfter(_)
MergedAfter(i) ==
    IF i + 1 > Len(dd_in.frames) \/ Retained(i + 1) THEN 0
    ELSE dd_in.durations[i + 1] + MergedAfter(i + 1)

----------------------------------------------------------------------------
(* order_images (app/services/ordering.py) as a pure function.  The stem of
   a path is a sequence of tokens: a text without digits, a run of ASCII
   digits, or a text of the form dddd-dd-dd; the name is the stem followed
   by an extension without digits.  The stems drawn have no two neighbouring
   digit runs, and neither text tokens nor characters that int() accepts
   outside 0-9. *)

\* the number of paths order_images is given
MaxNames == 3

Text(s) == [k |-> "text", s |-> s, y |-> 0, m |-> 0, d |-> 0]
Digits(n) == [k |-> "digits", s |-> "", y |-> n, m |-> 0, d |-> 0]
DatePattern(y, m, d) == [k |-> "date", s |-> "", y |-> y, m |-> m, d |-> d]

\* a character for which str.isdigit() holds and int() raises ValueError
Superscript == "²"

NameChoices ==
    {<<Text("img"), Digits(1)>>, <<Text("img"), Digits(2)>>, <<Text("img"), Digits(10)>>,
     <<Text("B"), Digits(1)>>,
     <<DatePattern(2025, 1, 2)>>, <<DatePattern(2025, 1, 10)>>,
     <<Text("img"), DatePattern(2025, 1, 1)>>,
     <<DatePattern(2025, 2, 30)>>,
     <<DatePattern(2025, 13, 1), Text("_"), DatePattern(2025, 1, 5)>>,
     <<Text(Superscript)>>}

\* datetime.date(y, m, d) raises ValueError unless the date exists
IsLeap(y) == y % 4 = 0 /\ (y % 100 # 0 \/ y % 400 = 0)
DaysInMonth(y, m) ==
    IF m = 2 THEN (IF IsLeap(y) THEN 29 ELSE 28)
    ELSE IF m \in {4, 6, 9, 11} THEN 30 ELSE 31
ValidDate(t) == t.y \in 1..9999 /\ t.m \in 1..12 /\ t.d \in 1..DaysInMonth(t.y, t.m)

\* dates in their order, and date.min
DateOrdinal(y, m, d) == (y * 100 + m) * 100 + d
DateMin == DateOrdinal(1, 1, 1)
None == 0

\* detect_date_from_name: re.search gives the first text of the form
\* dddd-dd-dd; the date it spells, or None if there is none or date() raises
FirstDatePattern(name) ==
    LET at == {i \in 1..Len(name) : name[i].k = "date"}
    IN IF at = {} THEN <<>>
       ELSE <<name[CHOOSE i \in at : \A j \in at : i <= j]>>
DetectDateFromName(name) ==
    LET match == FirstDatePattern(name)
    IN IF match = <<>> THEN None
       ELSE IF ValidDate(match[1])
            THEN DateOrdinal(match[1].y, match[1].m, match[1].d)
            ELSE None

\* an element of a natural key: an int or a str
IntElem(n) == [int |-> TRUE, v |-> n, s |-> ""]
StrElem(s) == [int |-> FALSE, v |-> 0, s |-> s]

\* re.split("([0-9]+)", s): texts and digit runs in turn, a text first and last
RECURSIVE SplitDigitRuns(_, _)
SplitDigitRuns(stem, acc) ==
    IF stem = <<>> THEN acc
    ELSE LET t == Head(stem)
             n == Len(acc)
         IN SplitDigitRuns(Tail(stem),
               CASE t.k = "text" -> [acc EXCEPT ![n] = StrElem(@.s \o t.s)]
                 [] t.k = "digits" -> acc \o <<IntElem(t.y), StrElem("")>>
                 [] t.k = "date" -> acc \o <<IntElem(t.y), StrElem("-"), IntElem(t.m),
                                             StrElem("-"), IntElem(t.d), StrElem("")>>)

\* c.isdigit() of a piece between the digit runs
IsDigit(s) == s = Superscript
\* c.lower()
Lower(s) == IF s = "B" THEN "b" ELSE s

\* natural_key: int(c) if c.isdigit() else c.lower(); the digit runs are ints
NaturalKey(stem) ==
    LET pieces == SplitDigitRuns(stem, <<StrElem("")>>)
    IN [i \in 1..Len(pieces) |-> IF pieces[i].int THEN pieces[i]
                                 ELSE StrElem(Lower(pieces[i].s))]
\* int(c) raises ValueError
NaturalKeyRaises(stem) ==
    LET pieces == SplitDigitRuns(stem, <<StrElem("")>>)
    IN \E i \in 1..Len(pieces) : ~pieces[i].int /\ IsDigit(pieces[i].s)

\* the texts of the keys in the order of str
TextOrder == <<"", "-", "_", "b", "img">>
TextRank(s) == CHOOSE r \in 1..Len(TextOrder) : TextOrder[r] = s

\* a < b for two elements of the same type, and for two tuples
LessElem(a, b) == IF a.int THEN a.v < b.v ELSE TextRank(a.s) < TextRank(b.s)
RECURSIVE LessKey(_, _)
LessKey(a, b) ==
    IF a = <<>> THEN b # <<>>
    ELSE IF b = <<>> THEN FALSE
    ELSE IF Head(a) = Head(b) THEN LessKey(Tail(a), Tail(b))
    ELSE LessElem(Head(a), Head(b))

\* sorted(images, key=...): a stable sort of the indices by their keys
RECURSIVE InsertByKey(_, _, _)
InsertByKey(i, acc, keys) ==
    IF acc = <<>> THEN <<i>>
    ELSE IF LessKey(keys[i], keys[Head(acc)]) THEN <<i>> \o acc
    ELSE <<Head(acc)>> \o InsertByKey(i, Tail(acc), keys)
RECURSIVE SortedIndices(_, _, _)
SortedIndices(i, acc, keys) ==
    IF i > Len(keys) THEN acc
    ELSE SortedIndices(i + 1, InsertByKey(i, acc, keys), keys)
Sorted(images, keys) ==
    LET order == SortedIndices(1, <<>>, keys)
    IN [i \in 1..Len(images) |-> images[order[i]]]

\* key=lambda p: detect_date_from_name(p.name) or date.min
DateKey(name) ==
    LET detected == DetectDateFromName(name)
    IN <<IntElem(IF detected # None THEN detected ELSE DateMin)>>

\* lines 38-45
StrategyToUse(images, strategy) ==
    IF strategy = "auto"
    THEN IF \A i \in 1..Len(images) : DetectDateFromName(images[i]) # None
         THEN "date" ELSE "natural"
    ELSE strategy

Strategies == {"auto", "date", "natural", "explicit"}
NameLists == UNION {[1..n -> NameChoices] : n \in 0..MaxNames}
NoExplicit == [given |-> FALSE, list |-> <<>>]
ExplicitLists ==
    {NoExplicit} \cup
    {[given |-> TRUE, list |-> l] :
        l \in {<<>>, <<<<Text("img"), Digits(2)>>, <<Text("img"), Digits(1)>>>>}}

OrderInputs ==
    [images : NameLists, strategy : Strategies \ {"explicit"}, explicit : {NoExplicit}]
    \cup [images : {l \in NameLists : Len(l) <= 1}, strategy : {"explicit"},
          explicit : ExplicitLists]

InitOrder ==
    /\ dd_pc = "CALL_ORDER"
    /\ dd_in \in OrderInputs
    /\ dd_out = <<>>
    /\ OptIdle /\ FileIdle /\ DirIdle /\ ToolIdle

\* order_images
OrderImages ==
    /\ dd_pc = "CALL_ORDER"
    /\ LET images == dd_in.images
           use == StrategyToUse(images, dd_in.strategy)
       IN \/ /\ dd_in.strategy = "explicit"
             /\ dd_out' = dd_in.explicit.list
             /\ dd_pc' = "ORDER_RETURNED"
          \/ /\ dd_in.strategy # "explicit"
             /\ use = "date"
             /\ dd_out' = Sorted(images, [i \in 1..Len(images) |-> DateKey(images[i])])
             /\ dd_pc' = "ORDER_RETURNED"
          \/ /\ dd_in.strategy # "explicit"
             /\ use = "natural"
             /\ \A i \in 1..Len(images) : ~NaturalKeyRaises(images[i])
             /\ dd_out' = Sorted(images, [i \in 1..Len(images) |-> NaturalKey(images[i])])
             /\ dd_pc' = "ORDER_RETURNED"
          \/ /\ dd_in.strategy # "explicit"
             /\ use = "natural"
             /\ \E i \in 1..Len(images) : NaturalKeyRaises(images[i])
             /\ dd_out' = <<>>
             /\ dd_pc' = "ORDER_RAISED"
    /\ UNCHANGED <<dd_in, optVars, fileVars, dirVars, toolVars>>

NextOrder == OrderImages

SpecOrder == InitOrder /\ [][NextOrder]_vars

\* the name contains the text of a date that exists
ContainsValidDate(name) ==
    \E i \in 1..Len(name) : name[i].k = "date" /\ ValidDate(name[i])

\* out holds the elements of in, each as often as in does
IsPermutation(out, in) ==
    /\ Len(out) = Len(in)
    /\ \A x \in NameChoices :
          Cardinality({i \in 1..Len(out) : out[i] = x})
              = Cardinality({i \in 1..Len(in) : in[i] = x})

\* no element of out is followed by one of a smaller key
AscendingByDate(out) ==
    \A i \in 1..Len(out) - 1 : ~LessKey(DateKey(out[i + 1]), DateKey(out[i]))
AscendingByNaturalKey(out) ==
    \A i \in 1..Len(out) - 1 : ~LessKey(NaturalKey(out[i + 1]), NaturalKey(out[i]))

\* C32: for 'date', 'natural' and 'auto', order_images returns a permutation
\* of its input in ascending order of the key: the date in the name for
\* 'date', the natural key of the stem for 'natural', and for 'auto' the
\* date iff every name contains a valid date, else the natural key;
\* 'explicit' returns the explicit list.
C32_OrderImages ==
    dd_pc \in {"ORDER_RETURNED", "ORDER_RAISED"} =>
        /\ dd_pc = "ORDER_RETURNED"
        /\ dd_in.strategy = "explicit" => dd_out = dd_in.explicit.list
        /\ dd_in.strategy # "explicit" => IsPermutation(dd_out, dd_in.images)
        /\ dd_in.strategy = "date" => AscendingByDate(dd_out)
        /\ dd_in.strategy = "natural" => AscendingByNaturalKey(dd_out)
        /\ dd_in.strategy = "auto" =>
              IF \A i \in 1..Len(dd_in.images) : ContainsValidDate(dd_in.images[i])
              THEN AscendingByDate(dd_out)
              ELSE AscendingByNaturalKey(dd_out)

\* the same for the calls that returned: the raise apart, the order is as
\* claimed when every text of the form of a date in the names is a date
C32_OrderOfReturned ==
    (/\ dd_pc = "ORDER_RETURNED"
     /\ \A i \in 1..Len(dd_in.images) : \A j \in 1..Len(dd_in.images[i]) :
           dd_in.images[i][j].k = "date" => ValidDate(dd_in.images[i][j])) =>
        /\ dd_in.strategy = "explicit" => dd_out = dd_in.explicit.list
        /\ dd_in.strategy # "explicit" => IsPermutation(dd_out, dd_in.images)
        /\ dd_in.strategy = "date" => AscendingByDate(dd_out)
        /\ dd_in.strategy = "natural" => AscendingByNaturalKey(dd_out)
        /\ dd_in.strategy = "auto" =>
              IF \A i \in 1..Len(dd_in.images) : ContainsValidDate(dd_in.images[i])
              THEN AscendingByDate(dd_out)
              ELSE AscendingByNaturalKey(dd_out)

----------------------------------------------------------------------------
(* comprehensive_render_wait (app/utils/render_wait.py).  dd_in is the
   configuration of the call, dd_out its locals: the results dict and the
   calls made on the page (and of asyncio.sleep), each with its outcome. *)

Stages == <<"images_loaded", "fonts_loaded", "map_ready", "no_loading_indicators",
            "custom_selector", "extra_wait">>

\* render_wait_config.get("timeout_ms", 30000)
DefaultTimeoutMs == 30000
TimeoutChoices == {10000, DefaultTimeoutMs}
\* render_wait_config.get("extra_wait_ms", 300)
DefaultExtraWaitMs == 300
ExtraWaitChoices == {0, DefaultExtraWaitMs}

RenderWaitConfigs ==
    [ensure_images_loaded : BOOLEAN, ensure_fonts_loaded : BOOLEAN,
     custom_selector : {"", "#map-canvas"}, extra_wait_ms : ExtraWaitChoices,
     timeout_ms : TimeoutChoices]

\* lines 189-198
InitialWaitResults ==
    [dom_content_loaded |-> TRUE, network_idle |-> TRUE, images_loaded |-> FALSE,
     fonts_loaded |-> FALSE, map_ready |-> FALSE, no_loading_indicators |-> FALSE,
     custom_selector |-> FALSE, extra_wait |-> TRUE]

InitWait ==
    /\ dd_pc = "RW_IMAGES"
    /\ dd_in \in RenderWaitConfigs
    /\ dd_out = [results |-> InitialWaitResults, calls |-> <<>>]
    /\ OptIdle /\ FileIdle /\ DirIdle /\ ToolIdle

PageCall(stage, method, timeout, raised) ==
    [stage |-> stage, method |-> method, timeout |-> timeout, raised |-> raised]

\* try: await page...; return True / except Exception: return False
WaitResultTrue(raised) == TRUE
WaitResult(raised) == ~raised

\* a wait_for_* helper that makes one call on the page
WaitFor(stage, method, timeout, next) ==
    \E raised \in BOOLEAN :
        /\ dd_out' = [dd_out EXCEPT
                         !.results[stage] = WaitResult(raised),
                         !.calls = Append(@, PageCall(stage, method, timeout, raised))]
        /\ dd_pc' = next

\* a stage that is switched off
ReportTrue(stage, next) ==
    /\ dd_out' = [dd_out EXCEPT !.results[stage] = TRUE]
    /\ dd_pc' = next

\* lines 203-207 and wait_for_images_loaded
ImagesStage ==
    /\ dd_pc = "RW_IMAGES"
    /\ IF dd_in.ensure_images_loaded
       THEN WaitFor("images_loaded", "wait_for_function", dd_in.timeout_ms \div 3,
                    "RW_FONTS")
       ELSE ReportTrue("images_loaded", "RW_FONTS")
    /\ UNCHANGED <<dd_in, optVars, fileVars, dirVars, toolVars>>

\* lines 210-214 and wait_for_fonts_loaded: page.evaluate, then
\* page.wait_for_function unless evaluate raised
FontsStage ==
    /\ dd_pc = "RW_FONTS"
    /\ IF dd_in.ensure_fonts_loaded
       THEN \E raised1, raised2 \in BOOLEAN :
               LET evaluate == PageCall("fonts_loaded", "evaluate", 0, raised1)
                   wait == PageCall("fonts_loaded", "wait_for_function",
                                    dd_in.timeout_ms \div 3, raised2)
               IN /\ raised1 => ~raised2
                  /\ dd_out' = [dd_out EXCEPT
                        !.results["fonts_loaded"] = WaitResult(raised1 \/ raised2),
                        !.calls = IF raised1 THEN Append(@, evaluate)
                                  ELSE @ \o <<evaluate, wait>>]
                  /\ dd_pc' = "RW_MAP"
       ELSE ReportTrue("fonts_loaded", "RW_MAP")
    /\ UNCHANGED <<dd_in, optVars, fileVars, dirVars, toolVars>>

\* line 218 and wait_for_map_ready
MapStage ==
    /\ dd_pc = "RW_MAP"
    /\ WaitFor("map_ready", "wait_for_function", dd_in.timeout_ms \div 2, "RW_LOADING")
    /\ UNCHANGED <<dd_in, optVars, fileVars, dirVars, toolVars>>

\* line 222 and wait_for_no_loading_indicators
LoadingStage ==
    /\ dd_pc = "RW_LOADING"
    /\ WaitFor("no_loading_indicators", "wait_for_function", dd_in.timeout_ms \div 3,
               "RW_CUSTOM")
    /\ UNCHANGED <<dd_in, optVars, fileVars, dirVars, toolVars>>

\* lines 225-234
CustomSelectorStage ==
    /\ dd_pc = "RW_CUSTOM"
    /\ IF dd_in.custom_selector # ""
       THEN WaitFor("custom_selector", "wait_for_selector", dd_in.timeout_ms \div 3,
                    "RW_EXTRA")
       ELSE ReportTrue("custom_selector", "RW_EXTRA")
    /\ UNCHANGED <<dd_in, optVars, fileVars, dirVars, toolVars>>

\* lines 237-250: asyncio.sleep, and the results are returned
ExtraWaitStage ==
    /\ dd_pc = "RW_EXTRA"
    /\ dd_out' = IF dd_in.extra_wait_ms > 0
                 THEN [dd_out EXCEPT
                          !.results["extra_wait"] = TRUE,
                          !.calls = Append(@, PageCall("extra_wait", "sleep",
                                                       dd_in.extra_wait_ms, FALSE))]
                 ELSE dd_out
    /\ dd_pc' = "RW_RETURNED"
    /\ UNCHANGED <<dd_in, optVars, fileVars, dirVars, toolVars>>

NextWait ==
    \/ ImagesStage
    \/ FontsStage
    \/ MapStage
    \/ LoadingStage
    \/ CustomSelectorStage
    \/ ExtraWaitStage

SpecWait == InitWait /\ [][NextWait]_vars

StageRank(stage) == CHOOSE r \in 1..Len(Stages) : Stages[r] = stage
CallsOf(stage) == SelectSeq(dd_out.calls, LAMBDA c : c.stage = stage)
Methods(cs) == [i \in 1..Len(cs) |-> cs[i].method]

\* the stage is switched off by the configuration
Disabled(stage) ==
    \/ stage = "images_loaded" /\ ~dd_in.ensure_images_loaded
    \/ stage = "fonts_loaded" /\ ~dd_in.ensure_fonts_loaded
    \/ stage = "custom_selector" /\ dd_in.custom_selector = ""
    \/ stage = "extra_wait" /\ dd_in.extra_wait_ms <= 0

\* C33: comprehensive_render_wait makes the calls of its stages in the order
\* images, fonts, map, loading indicators, custom selector, extra wait, each
\* stage once and whatever the earlier stages gave; when it returns, every
\* stage that is not switched off has run, a stage is False iff a call of
\* it failed, and a stage switched off is True without a call.
C33_StagesInOrder ==
    /\ dd_pc \in {"RW_IMAGES", "RW_FONTS", "RW_MAP", "RW_LOADING", "RW_CUSTOM",
                  "RW_EXTRA", "RW_RETURNED"}
    /\ \A i, j \in 1..Len(dd_out.calls) :
          i < j => StageRank(dd_out.calls[i].stage) <= StageRank(dd_out.calls[j].stage)
    /\ \A r \in 1..Len(Stages) :
          Methods(CallsOf(Stages[r])) \in
              IF Stages[r] = "fonts_loaded"
              THEN {<<>>, <<"evaluate">>, <<"evaluate", "wait_for_function">>}
              ELSE IF Stages[r] = "custom_selector" THEN {<<>>, <<"wait_for_selector">>}
              ELSE IF Stages[r] = "extra_wait" THEN {<<>>, <<"sleep">>}
              ELSE {<<>>, <<"wait_for_function">>}
    /\ dd_pc = "RW_RETURNED" =>
          \A r \in 1..Len(Stages) :
             LET cs == CallsOf(Stages[r])
             IN /\ Disabled(Stages[r]) <=> cs = <<>>
                /\ dd_out.results[Stages[r]] = (\A i \in 1..Len(cs) : ~cs[i].raised)
                /\ (cs # <<>> /\ \A i \in 1..Len(cs) : ~cs[i].raised) =>
                       cs[Len(cs)].method # "evaluate"

\* the images stage failed, the fonts stage was switched off, and the map
\* stage and those after it ran all the same
C33_Witness ==
    /\ dd_pc = "RW_RETURNED"
    /\ ~dd_out.results["images_loaded"]
    /\ ~dd_in.ensure_fonts_loaded /\ dd_out.results["fonts_loaded"]
    /\ dd_out.results["map_ready"]
    /\ ~dd_out.results["no_loading_indicators"]
    /\ Methods(dd_out.calls) = <<"wait_for_function", "wait_for_function",
                                 "wait_for_function", "wait_for_selector", "sleep">>

----------------------------------------------------------------------------
(* wait_for_gpsjam_hexagons (app/utils/gpsjam_handler.py).  dd_in is the call
   (timeout_ms), dd_out its locals, the clock of the event loop in ms, the
   calls it has made and, once it has returned, the value and the return
   statement taken.  same_since records since when the polls have read the
   count they read last. *)

\* stable_duration and check_interval, in ms
StableDuration == 3000
CheckInterval == 500

\* timeout_ms of the calls drawn: 0, 2 and 8 polls
HexTimeoutChoices == {900, 2000, 8000}
\* validCount of a reading
ValidCountChoices == {0, 1, 2}
\* what one round of the loop adds to the clock: the sleep, and the sleep
\* with a slow page.evaluate
RoundMs == {CheckInterval, 2 * CheckInterval}

NoTime == -1
NoReading == [ready |-> FALSE, validCount |-> -1]
Readings == [ready : BOOLEAN, validCount : ValidCountChoices]

\* max_iterations = (timeout_ms // 2) // check_interval
MaxIterations(timeout_ms) == (timeout_ms \div 2) \div CheckInterval

InitHex ==
    /\ dd_pc = "HEX_INITIAL_WAIT"
    /\ dd_in \in [timeout_ms : HexTimeoutChoices]
    /\ dd_out = [i |-> 0, last_count |-> -1, stable_start |-> NoTime, now |-> 0,
                 same_since |-> NoTime, polls |-> 0, final_checks |-> 0,
                 reading |-> NoReading, value |-> FALSE, at |-> "none"]
    /\ OptIdle /\ FileIdle /\ DirIdle /\ ToolIdle

HexReturn(locals, value, at) == [locals EXCEPT !.value = value, !.at = at]

\* lines 164-176: page.wait_for_function; a failure is caught at line 215
InitialWait ==
    /\ dd_pc = "HEX_INITIAL_WAIT"
    /\ \/ /\ dd_out' = HexReturn(dd_out, FALSE, "initial_wait_failed")
          /\ dd_pc' = "HEX_RETURNED"
       \/ /\ dd_out' = dd_out
          /\ dd_pc' = IF MaxIterations(dd_in.timeout_ms) > 0 THEN "HEX_POLL"
                      ELSE "HEX_FINAL_CHECK"
    /\ UNCHANGED <<dd_in, optVars, fileVars, dirVars, toolVars>>

\* (time() - stable_start) * 1000 >= stable_duration
StableAtOnce(elapsed) == TRUE
StableLongEnough(elapsed) == elapsed >= StableDuration

\* lines 178-204: one round of the loop
Poll ==
    /\ dd_pc = "HEX_POLL"
    /\ \/ \* page.evaluate raises: break
          /\ dd_out' = [dd_out EXCEPT !.polls = @ + 1, !.reading = NoReading]
          /\ dd_pc' = "HEX_FINAL_CHECK"
       \/ \E r \in Readings, round \in RoundMs :
             LET polled == [dd_out EXCEPT
                               !.polls = @ + 1, !.reading = r,
                               !.same_since = IF r.validCount = dd_out.last_count
                                              THEN @ ELSE dd_out.now]
                 current_count == r.validCount
                 same == current_count = dd_out.last_count /\ current_count > 0
             IN IF r.ready
                THEN /\ dd_out' = HexReturn(polled, TRUE, "ready")
                     /\ dd_pc' = "HEX_RETURNED"
                ELSE IF /\ same
                        /\ dd_out.stable_start # NoTime
                        /\ StableLongEnough(dd_out.now - dd_out.stable_start)
                THEN /\ dd_out' = HexReturn(polled, TRUE, "stabilized")
                     /\ dd_pc' = "HEX_RETURNED"
                ELSE /\ dd_out' = [polled EXCEPT
                           !.stable_start = IF same
                                            THEN (IF @ = NoTime THEN dd_out.now ELSE @)
                                            ELSE NoTime,
                           !.last_count = current_count,
                           !.now = @ + round,
                           !.i = @ + 1]
                     /\ dd_pc' = IF dd_out.i + 1 < MaxIterations(dd_in.timeout_ms)
                                 THEN "HEX_POLL" ELSE "HEX_FINAL_CHECK"
    /\ UNCHANGED <<dd_in, optVars, fileVars, dirVars, toolVars>>

\* lines 207-217: the final check; a failure is caught at line 215
FinalCheck ==
    /\ dd_pc = "HEX_FINAL_CHECK"
    /\ \/ dd_out' = HexReturn([dd_out EXCEPT !.final_checks = @ + 1,
                                             !.reading = NoReading],
                              FALSE, "final_check_failed")
       \/ \E r \in Readings :
             dd_out' = HexReturn([dd_out EXCEPT !.final_checks = @ + 1, !.reading = r],
                                 r.ready \/ r.validCount > 0, "final_check")
    /\ dd_pc' = "HEX_RETURNED"
    /\ UNCHANGED <<dd_in, optVars, fileVars, dirVars, toolVars>>

NextHex ==
    \/ InitialWait
    \/ Poll
    \/ FinalCheck

SpecHex == InitHex /\ [][NextHex]_vars

\* every call on the page returns or fails after a finite time
FairSpecHex == SpecHex /\ WF_vars(NextHex)

HexCallsWithinBounds ==
    dd_pc \in {"HEX_POLL", "HEX_FINAL_CHECK", "HEX_RETURNED"} =>
        /\ dd_out.polls <= MaxIterations(dd_in.timeout_ms)
        /\ dd_out.final_checks <= 1
        /\ dd_pc \in {"HEX_POLL", "HEX_FINAL_CHECK"} => ~dd_out.reading.ready

HexReturnValue ==
    dd_pc = "HEX_RETURNED" =>
        /\ dd_out.at = "initial_wait_failed" =>
              ~dd_out.value /\ dd_out.polls = 0 /\ dd_out.final_checks = 0
        /\ dd_out.at = "ready" =>
              dd_out.value /\ dd_out.reading.ready /\ dd_out.final_checks = 0
        /\ dd_out.at = "stabilized" =>
              /\ dd_out.value /\ dd_out.final_checks = 0
              /\ dd_out.reading.validCount = dd_out.last_count
              /\ dd_out.last_count > 0
              /\ dd_out.now - dd_out.same_since >= StableDuration
        /\ dd_out.at \in {"final_check", "final_check_failed"} =>
              /\ dd_out.final_checks = 1
              /\ dd_out.value <=> (dd_out.reading.ready \/ dd_out.reading.validCount > 0)
        /\ dd_out.at \in {"initial_wait_failed", "ready", "stabilized", "final_check",
                          "final_check_failed"}

\* C34: wait_for_gpsjam_hexagons returns after the initial wait, at most
\* (timeout_ms // 2) // 500 polls and one final check: False without a poll
\* if the initial wait fails, True at the first poll that reports ready or
\* that finds the valid count unchanged and positive for 3 seconds, and
\* otherwise True iff the final check reports ready or validCount > 0.
C34_HexagonWait ==
    /\ [](HexCallsWithinBounds /\ HexReturnValue)
    /\ <>(dd_pc = "HEX_RETURNED")

\* the count stayed at 2 from the second poll on and the eighth poll
\* returned True for it, no poll having reported ready
C34_Witness ==
    /\ dd_pc = "HEX_RETURNED"
    /\ dd_out.at = "stabilized"
    /\ dd_out.polls = 8
    /\ dd_out.last_count = 2
    /\ ~dd_out.reading.ready

----------------------------------------------------------------------------
\* C35: in the batch result of compress_directory, processed_count equals
\* successful_count + failed_count, the length of file_results and the
\* number of files matched, whatever the jobs did.
C35_CountersConsistent ==
    (d_pc = "RETURNED" /\ gif_files # <<>>) =>
        /\ results.processed_count = results.successful_count + results.failed_count
        /\ results.processed_count = Len(results.file_results)
        /\ results.processed_count = Len(gif_files)

----------------------------------------------------------------------------
\* "settings_used" of a successful result (lines 178-182): lossy_level and
\* color_limit, the base settings read at lines 113-115 (no color limit)
SettingsUsed == [lossy |-> GifsicleLossy, colors |-> 0]

GifsicleSucceeded ==
    Returned /\ t_call.op = "gifsicle" /\ t_result.success

\* C36: optimize_with_gifsicle returns success only if a gifsicle run of
\* that call wrote the output file; a file that lay at output_path before
\* the call is never reported as the result of a call whose runs all failed.
C36_SuccessOnlyIfWritten == GifsicleSucceeded => written_by # 0

\* C39: the settings_used of a successful optimize_with_gifsicle result are
\* the lossy level and color cap of the run that produced the file left at
\* output_path.
C39_SettingsOfProducingRun ==
    (GifsicleSucceeded /\ written_by # 0) => SettingsUsed = cmds[written_by]

----------------------------------------------------------------------------
\* C37: when optimize_gif has returned, normally or with an error result,
\* neither the temporary file of the final encode nor that of the resize is
\* left on disk.
C37_NoTempFileLeft ==
    pc \in Terminal => ("encode" \notin tmpFiles /\ "resize" \notin tmpFiles)

\* the same for the runs that return a result without error
C37_NoTempFileLeftOnSuccess ==
    Completed => ("encode" \notin tmpFiles /\ "resize" \notin tmpFiles)

----------------------------------------------------------------------------
\* C38: a compression run never modifies, replaces or deletes its source:
\* after the call the input file holds the bytes it held before, whatever
\* input_path, output_path and target_filename were given.
C38_SourceUntouched ==
    (fpc # "CALLED" /\ SourceExists) => fs[SourceFile] = File("SRC", SourceSize)

\* the same for the calls whose final output path does not name the source
C38_SourceUntouchedElsewhere ==
    (/\ fpc # "CALLED" /\ SourceExists
     /\ result.output_file # <<>> => RealFile(result.output_file[1]) # SourceFile) =>
        fs[SourceFile] = File("SRC", SourceSize)

====
